---------------------------- MODULE Spec2Model ----------------------------
(***************************************************************************)
(* Command transport, correlation and serialisation engine of the          *)
(* digital-twin viewer: CommandStateManager (execution lock and executed-  *)
(* command records), the command queue and its drain in ModelViewer.vue,   *)
(* the correlation tables of WebSocketManager / MCPClient / the control     *)
(* panel, and the connection life cycle of MCPClient.                       *)
(*                                                                         *)
(* Time is discrete: the program is observed every TickMs milliseconds,    *)
(* the period of the state manager's sweep, and every event happens at such *)
(* an instant (any number of events at one instant, in any order).         *)
(* Durations keep their values in milliseconds.  Timestamps are kept as    *)
(* ages in ticks (now - timestamp = age * TickMs) and timers as the ticks   *)
(* left until they are due, so that the clock itself needs no bound.  A     *)
(* JavaScript timer fires at or after its due time: a timer action is      *)
(* enabled once the ticks left reach 0, and time may go on while a due      *)
(* timer has not run yet.                                                  *)
(*                                                                         *)
(* Handlers run to completion (one event-loop task with the microtasks it  *)
(* queues); an async function is cut where it awaits something that a      *)
(* later task settles.                                                     *)
(***************************************************************************)
EXTENDS Integers, Sequences, FiniteSets, TLC

\* ------------------------------------------------------------------ values
\* null / "no timer" for ages and timers (every real age and timer is >= 0).
Null == 0 - 1

\* CommandStateManager options of the viewer's instance, in milliseconds.
MaxLockTime == 10000
RecordTTL == 8000
\* setInterval(() => this.cleanupExpiredRecords(), 5000)
CleanupInterval == 5000
\* await new Promise(resolve => setTimeout(resolve, 1500))
DrainDelay == 1500
\* setTimeout(() => executeQueuedCommands(), 500)
LockRetryDelay == 500

\* App shell: executeWithRetry(action, 0, 2) and its retry delay of
\* 1000 * (retryCount + 1) ms.
ShellMaxRetries == 2
ShellRetryBase == 1000

\* WebSocketManager.sendCommand: setTimeout(..., 5000)
CommandTimeout == 5000
\* MCPControlPanel sendMCPCommand: setTimeout(..., 10000)
PanelTimeout == 10000

\* MCPClient config: reconnectDelay, maxReconnectAttempts, pingInterval.
ReconnectDelay == 3000
MaxReconnectAttempts == 5
PingInterval == 30000
\* handleClose on code 1006: setTimeout(() => this.scheduleReconnect(), 1000)
CloseRetryDelay == 1000

\* WebSocketManager config: reconnectDelay, maxReconnectAttempts.
WsmReconnectDelay == 5000
WsmMaxReconnectAttempts == 5
\* WebSocketManager.connect: const connectionTimeout = setTimeout(..., 5000)
ConnectionTimeout == 5000

\* ModelControlService: MAX_RECONNECT_ATTEMPTS, and the base and the cap of
\* Math.min(1000 * Math.pow(2, reconnectAttempts), 30000).
SvcMaxReconnectAttempts == 5
SvcBaseDelay == 1000
SvcMaxDelay == 30000

\* The instants at which the program is observed are TickMs apart.
TickMs == CleanupInterval

\* Bounds of the model.
MaxWatchdogs == 2    \* handles available for watchdog timers (setTimeout ids)
MaxQueue == 2        \* entries the command queue may hold
MaxDirect == 2       \* rotateModel/zoomModel/focusOnModel/resetModel calls in flight
MaxIds == 2          \* serial numbers of command ids alive at once
MaxCalls == 3        \* commands sent for correlation
MaxSockets == 2      \* transports of the MCP client that have not closed yet
MaxCloseRetries == 1 \* pending 1000 ms timers of 1006 closes
MaxWsmReconnects == 2 \* pending reconnect timers of WebSocketManager
MaxShellRetries == 2 \* pending retry timers of the app shell's executeWithRetry

Min(a, b) == IF a < b THEN a ELSE b
Max(a, b) == IF a < b THEN b ELSE a
Abs(a) == IF a < 0 THEN 0 - a ELSE a

\* The ticks a timer of `delay` ms has left when it is armed: the first
\* instant at or after its due time.
Ticks(delay) == (delay + TickMs - 1) \div TickMs
\* now - timestamp, in milliseconds.
Elapsed(age) == age * TickMs
\* One tick more on an age that is only ever compared with `limit` ms: it
\* stops growing once it is beyond the limit.
Older(age, limit) == IF age = Null THEN Null ELSE Min(age + 1, limit \div TickMs + 1)
\* One tick less on a timer.
Sooner(left) == IF left = Null THEN Null ELSE Max(left - 1, 0)

\* ------------------------------------------------------ command parameters
\* A parameter object is a function from its keys to values.  Angles are in
\* degrees; distances, values and scales are in tenths.  A string passed
\* where an object is expected has the one key "0"; null is NullParams.
NumFields == {"angle", "distance", "value", "scale"}
EmptyParams == [k \in {} |-> 0]
NullParams == [isNull |-> TRUE]
StringParams(s) == [c \in {"0"} |-> s]
IsNull(p) == DOMAIN p = {"isNull"}
Keys(p) == DOMAIN p

\* JavaScript truthiness of params[k]: undefined, 0 and "" are falsy.
Truthy(p, k) ==
    /\ ~IsNull(p)
    /\ k \in DOMAIN p
    /\ IF k \in NumFields THEN p[k] # 0 ELSE p[k] # ""

\* Math.abs(a - b) < limit for two fields; NaN (a missing field) compares false.
NumClose(p1, p2, k, limit) ==
    /\ k \in DOMAIN p1
    /\ k \in DOMAIN p2
    /\ Abs(p1[k] - p2[k]) < limit

\* areValuesSimilar for flat values: numbers within 30% of the larger
\* magnitude, strings equal.
areValuesSimilar(p1, p2, k) ==
    IF k \in NumFields
    THEN 10 * Abs(p1[k] - p2[k]) < 3 * Max(Abs(p1[k]), Abs(p2[k]))
    ELSE p1[k] = p2[k]

\* calculateParamSimilarity(p1, p2) >= similarityThreshold (0.75 in the
\* viewer): 0.4 * common/union + 0.6 * matching/common >= 0.75, in integers.
paramSimilarityReached(p1, p2) ==
    LET common == Keys(p1) \cap Keys(p2)
        c == Cardinality(common)
        u == Cardinality(Keys(p1) \cup Keys(p2))
        m == Cardinality({k \in common : areValuesSimilar(p1, p2, k)})
    IN IF Keys(p1) = {} /\ Keys(p2) = {} THEN TRUE
       ELSE IF Keys(p1) = {} \/ Keys(p2) = {} THEN FALSE
       ELSE IF c = 0 THEN FALSE
       ELSE 8 * c * c + 12 * m * u >= 15 * u * c

\* areParamsSimilar(params1, params2, operation).
areParamsSimilar(p1, p2, operation) ==
    IF IsNull(p1) \/ IsNull(p2) THEN FALSE
    ELSE IF Keys(p1) = {} /\ Keys(p2) = {} THEN TRUE
    ELSE CASE operation = "focus" ->
                IF Truthy(p1, "targetId") /\ Truthy(p2, "targetId")
                THEN p1["targetId"] = p2["targetId"]
                ELSE FALSE
           [] operation = "zoom" ->
                IF Truthy(p1, "direction") /\ Truthy(p2, "direction")
                THEN p1["direction"] = p2["direction"] /\ NumClose(p1, p2, "distance", 3)
                ELSE IF Truthy(p1, "value") /\ Truthy(p2, "value")
                THEN NumClose(p1, p2, "value", 3)
                ELSE FALSE
           [] operation = "rotate" ->
                IF Truthy(p1, "axis") /\ Truthy(p2, "axis") /\ Truthy(p1, "angle") /\ Truthy(p2, "angle")
                THEN p1["axis"] = p2["axis"] /\ NumClose(p1, p2, "angle", 15)
                ELSE FALSE
           [] operation = "reset" -> TRUE
           [] OTHER -> paramSimilarityReached(p1, p2)

\* ------------------------------------------------------------------- state
VARIABLES
    locked,               \* CommandStateManager.locked
    lockAge,              \* now - lockTimestamp, Null when lockTimestamp is null
    lockTimeoutId,        \* handle of the watchdog the manager remembers, 0 for null
    watchdogs,            \* armed watchdog timers: handle -> ticks left, Null if not armed
    cleanupTimer,         \* ticks left until the next cleanupExpiredRecords
    executedCommands,     \* CommandStateManager.executedCommands: id -> record
    pendingRecords,       \* CommandStateManager.pendingCommands: id -> record
    commandQueue,         \* ModelViewer commandQueue
    isExecutingCommands,  \* ModelViewer isExecutingCommands
    drainTimers,          \* pending 1500 ms continuations of the drain: ticks left -> how many
    retryTimers,          \* pending 500 ms lock retries: ticks left -> how many
    direct,               \* rotateModel/zoomModel/focusOnModel/resetModel calls awaiting the server
    lastAcquire,          \* what the last acquireLock() call returned ("none" before any)
    lastWarning,          \* the last console.warn of the manager ("none" before any)
    shellRetries,         \* pending retry timers of executeWithRetry: action, next retryCount, ticks left, delay
    lastJudged,           \* the isCommandExecuted call of the last step and what it returned
    calls,                \* the commands sent for correlation, call k carrying id k
    wsmPending,           \* ids in WebSocketManager.pendingCommands
    mcpCallbacks,         \* ids in MCPClient.commandCallbacks
    panelPending,         \* ids in the control panel's pendingCommands
    thrown,               \* an error has left a message callback
    lastStray,            \* what the last response for an id not awaited found ("none" before any)
    sockets,              \* the MCP client's transports that have not closed yet: slot -> state
    ws,                   \* MCPClient.ws: the slot of its socket, 0 for null
    status,               \* MCPClient._status
    reconnectAttempts,    \* MCPClient.reconnectAttempts
    reconnectTimer,       \* ticks left of MCPClient.reconnectTimer, Null when none is armed
    pingTimer,            \* ticks left of MCPClient.pingTimer, Null when none is armed
    closeRetries,         \* pending 1000 ms timers of 1006 closes: ticks left -> how many
    lastActivity,         \* now - MCPClient.lastActivity
    lastInbound,          \* time since a transport of the client last opened or delivered a message
    intentional,          \* disconnect() was the application's last call of connect/disconnect/reconnect
    wsmSockets,           \* WebSocketManager's transports of the endpoint that have not closed yet: slot -> state
    wsmConnection,        \* WebSocketManager.connections.get(endpoint): the slot of the socket, 0 when absent
    wsmReconnectAttempts, \* WebSocketManager.reconnectAttempts.get(endpoint) || 0
    wsmReconnects,        \* pending reconnect timers of handleReconnect: ticks left -> how many
    wsmTimeouts,          \* connectionTimeout of each transport: ticks left, Null when cleared
    wsmRetrying,          \* the transports created by connect() calls of the reconnect timer
    wsmLastSend,          \* the outcome of the send() call of the last step ("none" if it was none)
    lastSend,             \* what the sendMessage() call of the last step returned ("none" if it was none)
    svcSockets,           \* ModelControlService's transports that have not closed yet: slot -> state
    wsConnection,         \* ModelControlService wsConnection: the slot of its socket, 0 for null
    connectionStatus,     \* ModelControlService connectionStatus.value
    connectionError,      \* which message connectionError.value holds, "null" for null
    svcReconnectAttempts, \* ModelControlService reconnectAttempts
    svcReconnectTimer,    \* ticks left of ModelControlService reconnectTimer, Null when none is armed
    svcLastSend           \* what the service's sendMessage() call of the last step returned ("none" if it was none)

viewerVars == <<locked, lockAge, lockTimeoutId, watchdogs, cleanupTimer, executedCommands,
                pendingRecords, commandQueue, isExecutingCommands, drainTimers, retryTimers,
                direct, lastAcquire, lastWarning, lastJudged, shellRetries>>
corrVars == <<calls, wsmPending, mcpCallbacks, panelPending, thrown, lastStray>>
connVars == <<sockets, ws, status, reconnectAttempts, reconnectTimer, pingTimer, closeRetries,
              lastActivity, lastInbound, intentional,
              wsmSockets, wsmConnection, wsmReconnectAttempts, wsmReconnects, wsmTimeouts,
              wsmRetrying, wsmLastSend, lastSend,
              svcSockets, wsConnection, connectionStatus, connectionError, svcReconnectAttempts,
              svcReconnectTimer, svcLastSend>>
vars == <<viewerVars, corrVars, connVars>>

Handles == 1..MaxWatchdogs

\* lastJudged when the last step was not a call of isCommandExecuted.
NotJudged == [asked |-> FALSE, operation |-> "none", params |-> EmptyParams, result |-> FALSE]

\* The current state as one record, so that the calls a handler makes can be
\* applied one after the other.  `overflow` is set when a call would need
\* more than the model's bounds give; such a step is not taken.
State ==
    [locked |-> locked, lockAge |-> lockAge, lockTimeoutId |-> lockTimeoutId,
     watchdogs |-> watchdogs, cleanupTimer |-> cleanupTimer,
     executedCommands |-> executedCommands, pendingRecords |-> pendingRecords,
     commandQueue |-> commandQueue, isExecutingCommands |-> isExecutingCommands,
     drainTimers |-> drainTimers, retryTimers |-> retryTimers, direct |-> direct,
     lastAcquire |-> lastAcquire, lastWarning |-> lastWarning, lastJudged |-> NotJudged,
     shellRetries |-> shellRetries, overflow |-> FALSE]

Fits(s) == ~s.overflow
Assign(s) ==
    /\ locked' = s.locked
    /\ lockAge' = s.lockAge
    /\ lockTimeoutId' = s.lockTimeoutId
    /\ watchdogs' = s.watchdogs
    /\ cleanupTimer' = s.cleanupTimer
    /\ executedCommands' = s.executedCommands
    /\ pendingRecords' = s.pendingRecords
    /\ commandQueue' = s.commandQueue
    /\ isExecutingCommands' = s.isExecutingCommands
    /\ drainTimers' = s.drainTimers
    /\ retryTimers' = s.retryTimers
    /\ direct' = s.direct
    /\ lastAcquire' = s.lastAcquire
    /\ lastWarning' = s.lastWarning
    /\ lastJudged' = s.lastJudged
    /\ shellRetries' = s.shellRetries
\* A step of the viewer or of its state manager: the correlation tables and
\* the MCP client's connection are other objects.
Commit(s) ==
    /\ Assign(s)
    /\ UNCHANGED corrVars
    /\ UNCHANGED connVars

\* ------------------------------------------------------ CommandStateManager
\* now - this.lockTimestamp > this.maxLockTime
LockExpired(s) == s.lockAge # Null /\ Elapsed(s.lockAge) > MaxLockTime

\* clearTimeout(this.lockTimeoutId) on the timer table.
ClearedWatchdogs(s) == [h \in Handles |-> IF h = s.lockTimeoutId THEN Null ELSE s.watchdogs[h]]

\* releaseLock(): the flag and the timestamp are cleared, the remembered
\* watchdog is cancelled.
releaseLockKeepsTimer(s) == [s EXCEPT !.locked = FALSE, !.lockAge = Null]
releaseLock(s) ==
    [s EXCEPT !.locked = FALSE, !.lockAge = Null,
              !.watchdogs = ClearedWatchdogs(s), !.lockTimeoutId = 0]

\* acquireLock() returns false exactly when the lock is held and not expired.
acquireLockRefusedNoExpiry(s) == s.locked
acquireLockRefusedNever(s) == FALSE
acquireLockRefused(s) == s.locked /\ ~LockExpired(s)

\* The state after acquireLock(): untouched when refused; otherwise an
\* expired hold is released first (with a warning), and the lock is taken
\* with a fresh timestamp and a fresh watchdog of maxLockTime.
acquireLock(s) ==
    IF acquireLockRefused(s)
    THEN [s EXCEPT !.lastAcquire = "false"]
    ELSE LET r == IF s.locked
                  THEN [releaseLock(s) EXCEPT !.lastWarning = "expired-on-acquire"]
                  ELSE s
             free == {h \in Handles : r.watchdogs[h] = Null}
             h == CHOOSE x \in free : \A g \in free : x <= g
         IN IF free = {}
            THEN [s EXCEPT !.overflow = TRUE]
            ELSE [r EXCEPT !.locked = TRUE, !.lockAge = 0,
                           !.watchdogs = [r.watchdogs EXCEPT ![h] = Ticks(MaxLockTime)],
                           !.lockTimeoutId = h, !.lastAcquire = "true"]

\* Command ids.  registerCommand builds `${operation}-${Date.now()}-${random}`
\* (shape "gen", it contains '-'); the server sends ids such as cmd_17_42
\* (shape "plain", no '-') or a number (shape "num").  n tells ids apart.
UsedSerials(s) ==
    {id.n : id \in DOMAIN s.executedCommands} \cup {id.n : id \in DOMAIN s.pendingRecords}
    \cup {s.commandQueue[i].id.n : i \in 1..Len(s.commandQueue)}
    \cup {d.key.n : d \in s.direct}
FreeSerials(s) == (1..MaxIds) \ UsedSerials(s)
FreshSerial(s) == IF FreeSerials(s) = {} THEN 0 ELSE CHOOSE n \in FreeSerials(s) : \A m \in FreeSerials(s) : n <= m
NewId(s, operation, shape) == [op |-> operation, shape |-> shape, n |-> FreshSerial(s)]

\* commandId.includes('-') and commandId.split('-')[0]
IdIncludesDash(id) == id.shape = "gen"
IdHead(id) == IF id.shape = "gen" THEN id.op ELSE "whole-id"

Put(f, k, v) == [x \in DOMAIN f \cup {k} |-> IF x = k THEN v ELSE f[x]]
Drop(f, k) == [x \in DOMAIN f \ {k} |-> f[x]]

\* registerCommand(operation, params): the id it returns is NewId(s, operation, "gen").
registerCommand(s, operation, params) ==
    IF FreshSerial(s) = 0
    THEN [s EXCEPT !.overflow = TRUE]
    ELSE [s EXCEPT !.pendingRecords =
            Put(@, NewId(s, operation, "gen"), [operation |-> operation, hasParams |-> TRUE, params |-> params, age |-> 0])]

\* markAsExecuted(commandId, result) for a string id.
markAsExecuted(s, id) ==
    IF id \in DOMAIN s.pendingRecords
    THEN [s EXCEPT !.executedCommands = Put(@, id, [s.pendingRecords[id] EXCEPT !.age = 0]),
                   !.pendingRecords = Drop(@, id)]
    ELSE [s EXCEPT !.executedCommands =
            Put(@, id, [operation |-> IdHead(id), hasParams |-> FALSE, params |-> EmptyParams, age |-> 0])]

\* cmd.params as areParamsSimilar sees it (its default {} stands in for undefined).
RecordParamsNoDefault(rec) == IF rec.hasParams THEN rec.params ELSE NullParams
RecordParams(rec) == IF rec.hasParams THEN rec.params ELSE EmptyParams

\* isCommandExecuted(operation, params)
isCommandExecutedAnyAge(s, operation, params) ==
    \E id \in DOMAIN s.executedCommands :
        /\ s.executedCommands[id].operation = operation
        /\ areParamsSimilar(RecordParams(s.executedCommands[id]), params, operation)
isCommandExecuted(s, operation, params) ==
    \E id \in DOMAIN s.executedCommands :
        LET rec == s.executedCommands[id]
        IN /\ rec.operation = operation
           /\ Elapsed(rec.age) < RecordTTL
           /\ areParamsSimilar(RecordParams(rec), params, operation)

\* A caller calls isCommandExecuted(operation, params) and sees what it returns.
isCommandExecutedRecording(s, operation, params) ==
    [markAsExecuted(s, [op |-> operation, shape |-> "gen", n |-> 1])
        EXCEPT !.lastJudged = [asked |-> TRUE, operation |-> operation, params |-> params,
                               result |-> isCommandExecuted(s, operation, params)]]
isCommandExecutedCall(s, operation, params) ==
    [s EXCEPT !.lastJudged = [asked |-> TRUE, operation |-> operation, params |-> params,
                              result |-> isCommandExecuted(s, operation, params)]]

\* reset(): both record tables are emptied and the lock released.
reset(s) ==
    releaseLock([s EXCEPT !.executedCommands = [id \in {} |-> 0], !.pendingRecords = [id \in {} |-> 0]])

\* cleanupExpiredRecords()
cleanupExpiredRecords(s) ==
    LET swept == [s EXCEPT
            !.executedCommands = [id \in {x \in DOMAIN @ : ~(Elapsed(@[x].age) > RecordTTL)} |-> @[id]],
            !.pendingRecords = [id \in {x \in DOMAIN @ : ~(Elapsed(@[x].age) > RecordTTL)} |-> @[id]]]
    IN IF swept.locked /\ LockExpired(swept)
       THEN [releaseLock(swept) EXCEPT !.lastWarning = "expired-on-sweep"]
       ELSE swept

\* ------------------------------------------------------------- timer bags
\* A bag of timers of one kind: ticks left -> how many are armed.
NoTimers(delay) == [t \in 0..Ticks(delay) |-> 0]
Arm(bag, delay) == [bag EXCEPT ![Ticks(delay)] = @ + 1]
Disarm(bag) == [bag EXCEPT ![0] = @ - 1]
Shift(bag) ==
    LET at(t) == IF t \in DOMAIN bag THEN bag[t] ELSE 0
    IN [t \in DOMAIN bag |-> IF t = 0 THEN at(0) + at(1) ELSE at(t + 1)]
Armed(bag) == \E t \in DOMAIN bag : bag[t] > 0

\* ------------------------------------------------ ModelViewer: direct calls
\* rotateModel(params) / zoomModel(params) / focusOnModel(params) /
\* resetModel() up to the await of the server's answer: skipped when a
\* similar command was executed recently; otherwise the command is
\* registered and stays in flight until the answer or its timeout.
directStart(s, kind, params, origin) ==
    IF isCommandExecuted(s, kind, params)
    THEN s
    ELSE LET r == registerCommand(s, kind, params)
             call == [key |-> NewId(s, kind, "gen"), kind |-> kind, params |-> params, origin |-> origin]
         IN IF r.overflow \/ Cardinality(s.direct) >= MaxDirect
            THEN [s EXCEPT !.overflow = TRUE]
            ELSE [r EXCEPT !.direct = @ \cup {call}]

\* The rest of such a call: the local operation is applied to the view and,
\* when the answer or the local result is a success, the command is marked
\* as executed.
directFinish(s, call, marked) ==
    LET done == [s EXCEPT !.direct = @ \ {call}]
    IN IF marked THEN markAsExecuted(done, call.key) ELSE done

\* handleMCPCommand(command)
handleMCPCommand(s, command) ==
    IF command.action \in {"rotate", "zoom", "focus"}
    THEN directStart(s, command.action, command.parameters, "server")
    ELSE IF command.action = "reset"
    THEN directStart(s, "reset", EmptyParams, "server")
    ELSE s

\* MCPClient.handleMessage for a message of type 'command': config.onMessage
\* is called with it, and then the registered handler handleCommand calls
\* config.onMessage with it once more; the viewer's onMessage passes
\* message.command to handleMCPCommand each time.
onCommandMessage(s, command) == handleMCPCommand(handleMCPCommand(s, command), command)

\* mcpRotate / mcpZoom / mcpFocus / mcpReset as the drain calls them: over
\* the MCP client when it is connected, else the local function, which is
\* not awaited.
mcpCall(s, kind, params, mcpConnected) ==
    IF mcpConnected THEN s ELSE directStart(s, kind, params, "queue")

\* -------------------------------------------------- ModelViewer: the drain
\* executeRotate / executeZoom / executeFocus / executeReset (params).
executeCommand(s, operation, params, mcpConnected) ==
    CASE operation = "rotate" ->
            IF Truthy(params, "axis") /\ Truthy(params, "angle")
            THEN mcpCall(s, "rotate", StringParams(params["axis"]), mcpConnected)
            ELSE s
      [] operation = "zoom" ->
            IF Truthy(params, "direction")
            THEN IF params["direction"] \in {"in", "out"}
                 THEN mcpCall(s, "zoom", StringParams(params["direction"]), mcpConnected)
                 ELSE s
            ELSE IF "value" \in DOMAIN params
            THEN mcpCall(s, "zoom", StringParams(IF params["value"] > 0 THEN "in" ELSE "out"), mcpConnected)
            ELSE s
      [] operation = "focus" ->
            IF Truthy(params, "targetId")
            THEN mcpCall(s, "focus", StringParams(params["targetId"]), mcpConnected)
            ELSE s
      [] operation = "reset" -> mcpCall(s, "reset", EmptyParams, mcpConnected)
      [] OTHER -> s

\* markAsExecuted(id, result) raises a TypeError when the id is not a
\* string (commandId.includes is not a function).
markAsExecutedThrows(s, id) == id \notin DOMAIN s.pendingRecords /\ id.shape = "num"

\* if (isExecutingCommands.value) return, the guard of executeQueuedCommands.
drainBusyNever(s) == FALSE
drainBusyWhileLocked(s) == s.isExecutingCommands /\ s.locked
drainBusy(s) == s.isExecutingCommands

\* executeQueuedCommands()
executeQueuedCommands(s, mcpConnected) ==
    IF drainBusy(s) THEN s
    ELSE IF Len(s.commandQueue) = 0 THEN s
    ELSE IF acquireLockRefused(s)
    THEN [acquireLock(s) EXCEPT !.retryTimers = Arm(@, LockRetryDelay)]
    ELSE LET command == Head(s.commandQueue)
             taken == [acquireLock(s) EXCEPT !.isExecutingCommands = TRUE,
                                             !.commandQueue = Tail(@)]
             ran == executeCommand(taken, command.operation, command.params, mcpConnected)
         IN IF markAsExecutedThrows(ran, command.id)
            THEN releaseLock([ran EXCEPT !.commandQueue = <<>>, !.isExecutingCommands = FALSE])
            ELSE [markAsExecuted(ran, command.id) EXCEPT !.drainTimers = Arm(@, DrainDelay)]

\* The drain after its 1500 ms pause.
drainContinue(s, mcpConnected) ==
    LET woken == [s EXCEPT !.drainTimers = Disarm(@)]
    IN IF Len(woken.commandQueue) > 0
       THEN executeQueuedCommands(woken, mcpConnected)
       ELSE releaseLock([woken EXCEPT !.isExecutingCommands = FALSE])

\* ------------------------------------- ModelViewer: handleWebSocketMessage
IndexOfNone(q, operation) == 0
IndexOf(q, operation) ==
    IF \E i \in 1..Len(q) : q[i].operation = operation
    THEN CHOOSE i \in 1..Len(q) : q[i].operation = operation /\ \A j \in 1..(i - 1) : q[j].operation # operation
    ELSE 0
SpliceNothing(q, i) == q
Splice(q, i) == [j \in 1..(Len(q) - 1) |-> IF j < i THEN q[j] ELSE q[j + 1]]

\* commandQueue.value.some(cmd => cmd.operation === operationType &&
\*     commandStateManager.areParamsSimilar(cmd.params, commandParams, operationType))
hasSimilarCommandNever(q, operationType, commandParams) == FALSE
hasSimilarCommand(q, operationType, commandParams) ==
    \E i \in 1..Len(q) :
        /\ q[i].operation = operationType
        /\ areParamsSimilar(q[i].params, commandParams, operationType)

\* message = {operation, params, id}: operation "none" and idShape "none"
\* stand for a missing field.  The id of a message is the server's choice:
\* a new one, or (idShape "same") the id it gave the command of the same
\* kind that waits in the queue.
handleWebSocketMessage(s, message, mcpConnected) ==
    LET operationType == IF message.operation = "none" THEN "unknown" ELSE message.operation
        commandParams == message.params
        generated == message.idShape = "none"
        queuedAt == IndexOf(s.commandQueue, operationType)
        repeated == message.idShape = "same" /\ queuedAt # 0 /\ s.commandQueue[queuedAt].id.shape = "plain"
        commandId == IF generated THEN NewId(s, operationType, "gen")
                     ELSE IF repeated THEN s.commandQueue[queuedAt].id
                     ELSE NewId(s, "cmd", IF message.idShape = "same" THEN "plain" ELSE message.idShape)
        s1 == IF ~repeated /\ FreshSerial(s) = 0 THEN [s EXCEPT !.overflow = TRUE]
              ELSE IF generated THEN registerCommand(s, operationType, EmptyParams) ELSE s
        index == IndexOf(s1.commandQueue, operationType)
        s2 == IF operationType \in {"focus", "reset"} /\ index # 0
              THEN [s1 EXCEPT !.commandQueue = Splice(@, index)]
              ELSE s1
        entry == [id |-> commandId, operation |-> operationType, params |-> commandParams,
                  held |-> s.locked]
        s3 == IF Len(s2.commandQueue) >= MaxQueue THEN [s2 EXCEPT !.overflow = TRUE]
              ELSE [s2 EXCEPT !.commandQueue = Append(@, entry)]
    IN IF isCommandExecuted(s1, operationType, commandParams) THEN s1
       ELSE IF hasSimilarCommand(s2.commandQueue, operationType, commandParams) THEN s2
       ELSE IF s3.isExecutingCommands THEN s3
       ELSE executeQueuedCommands(s3, mcpConnected)

\* ---------------------------------------------------- MCPClient connection
\* The transports (WebSocket objects) the client has created and that have
\* not delivered their close event yet, by slot; a slot is free ("NONE")
\* again once its socket has closed.  A socket is CONNECTING, OPEN, CLOSING
\* (close() was called on an open socket) or FAILING (close() was called
\* before the connection was established: readyState CLOSING, and its close
\* event will carry 1006).
SocketIds == 1..MaxSockets

\* The codes a close event carries: 1000 and 1001 are the normal closures of
\* handleClose, 1006 its abnormal closure, 1005 (no status received, what a
\* close() without a code ends in) one of its "other" codes.
CloseCodes == {1000, 1001, 1005, 1006}

\* The connection as one record, so that the calls a handler makes can be
\* applied one after the other.
Conn ==
    [sockets |-> sockets, ws |-> ws, status |-> status,
     reconnectAttempts |-> reconnectAttempts, reconnectTimer |-> reconnectTimer,
     pingTimer |-> pingTimer, closeRetries |-> closeRetries,
     lastActivity |-> lastActivity, lastInbound |-> lastInbound,
     intentional |-> intentional,
     wsmSockets |-> wsmSockets, wsmConnection |-> wsmConnection,
     wsmReconnectAttempts |-> wsmReconnectAttempts, wsmReconnects |-> wsmReconnects,
     wsmTimeouts |-> wsmTimeouts, wsmRetrying |-> wsmRetrying, wsmLastSend |-> "none",
     lastSend |-> "none",
     svcSockets |-> svcSockets, wsConnection |-> wsConnection,
     connectionStatus |-> connectionStatus, connectionError |-> connectionError,
     svcReconnectAttempts |-> svcReconnectAttempts, svcReconnectTimer |-> svcReconnectTimer,
     svcLastSend |-> "none",
     overflow |-> FALSE]

AssignConn(c) ==
    /\ sockets' = c.sockets
    /\ ws' = c.ws
    /\ status' = c.status
    /\ reconnectAttempts' = c.reconnectAttempts
    /\ reconnectTimer' = c.reconnectTimer
    /\ pingTimer' = c.pingTimer
    /\ closeRetries' = c.closeRetries
    /\ lastActivity' = c.lastActivity
    /\ lastInbound' = c.lastInbound
    /\ intentional' = c.intentional
    /\ wsmSockets' = c.wsmSockets
    /\ wsmConnection' = c.wsmConnection
    /\ wsmReconnectAttempts' = c.wsmReconnectAttempts
    /\ wsmReconnects' = c.wsmReconnects
    /\ wsmTimeouts' = c.wsmTimeouts
    /\ wsmRetrying' = c.wsmRetrying
    /\ wsmLastSend' = c.wsmLastSend
    /\ lastSend' = c.lastSend
    /\ svcSockets' = c.svcSockets
    /\ wsConnection' = c.wsConnection
    /\ connectionStatus' = c.connectionStatus
    /\ connectionError' = c.connectionError
    /\ svcReconnectAttempts' = c.svcReconnectAttempts
    /\ svcReconnectTimer' = c.svcReconnectTimer
    /\ svcLastSend' = c.svcLastSend
\* A step of the MCP client's connection.
CommitConn(c) ==
    /\ AssignConn(c)
    /\ UNCHANGED viewerVars
    /\ UNCHANGED corrVars

\* The transports that are connecting or open.
Active(c) == {s \in SocketIds : c.sockets[s] \in {"CONNECTING", "OPEN"}}

setStatus(c, st) == [c EXCEPT !.status = st]

\* clearTimers(): the reconnect timer and the ping timer the client
\* remembers are cancelled.
clearTimers(c) == [c EXCEPT !.reconnectTimer = Null, !.pingTimer = Null]

\* this.ws && (readyState === CONNECTING || readyState === OPEN)
wsReady(c) == c.ws # 0 /\ c.sockets[c.ws] \in {"CONNECTING", "OPEN"}

\* connect(): nothing when this.ws is connecting or open; otherwise the
\* status becomes 'connecting' and a new WebSocket, with the client's four
\* handlers bound to it, becomes this.ws.
connect(c) ==
    IF wsReady(c)
    THEN c
    ELSE LET free == {s \in SocketIds : c.sockets[s] = "NONE"}
             s == CHOOSE x \in free : \A y \in free : x <= y
         IN IF free = {}
            THEN [c EXCEPT !.overflow = TRUE]
            ELSE [setStatus(c, "connecting") EXCEPT !.sockets = [@ EXCEPT ![s] = "CONNECTING"], !.ws = s]

\* WebSocket.close(): the close event comes in a later task.
Closed(state) ==
    IF state = "CONNECTING" THEN "FAILING"
    ELSE IF state = "OPEN" THEN "CLOSING"
    ELSE state

\* disconnect(): timers cleared, this.ws closed and forgotten (its handlers
\* stay bound to the client), status 'disconnected'.
disconnect(c) ==
    LET t == clearTimers(c)
        closed == IF t.ws # 0
                  THEN [t EXCEPT !.sockets = [@ EXCEPT ![t.ws] = Closed(@)], !.ws = 0]
                  ELSE t
    IN setStatus(closed, "disconnected")

\* reconnect(): disconnect(); reconnectAttempts = 0; connect()
reconnect(c) == connect([disconnect(c) EXCEPT !.reconnectAttempts = 0])

\* scheduleReconnect() with autoReconnect on: nothing once the attempts are
\* used up; otherwise timers cleared, one more attempt counted, status
\* 'reconnecting', and connect() in reconnectDelay ms.
scheduleReconnect(c) ==
    IF c.reconnectAttempts >= MaxReconnectAttempts
    THEN c
    ELSE [setStatus(clearTimers(c), "reconnecting") EXCEPT
            !.reconnectAttempts = @ + 1, !.reconnectTimer = Ticks(ReconnectDelay)]

\* startPingTimer(): clearTimers(), then setInterval(..., pingInterval)
startPingTimer(c) == [clearTimers(c) EXCEPT !.pingTimer = Ticks(PingInterval)]

\* sendMessage(message): false when this.ws is not open; otherwise the
\* message is sent and lastActivity = Date.now().
sendMessage(c) ==
    IF c.ws # 0 /\ c.sockets[c.ws] = "OPEN" THEN [c EXCEPT !.lastActivity = 0] ELSE c

\* A call of sendMessage(message) by the application, and what it returns.
sendMessageCall(c) ==
    [sendMessage(c) EXCEPT !.lastSend = IF c.ws # 0 /\ c.sockets[c.ws] = "OPEN" THEN "true" ELSE "false"]

\* handleOpen(event): the status is left for the welcome message to set.
handleOpen(c) == startPingTimer([c EXCEPT !.reconnectAttempts = 0, !.lastActivity = 0])

\* A message has come in on a transport of the client.
Inbound(c) == [c EXCEPT !.lastInbound = 0]

\* The messages whose handlers touch the connection only: those of these
\* types and the ones JSON.parse rejects ("garbage").  A 'response' goes on
\* to the callback table and a 'command' to the viewer.
ConnMessageTypes == {"welcome", "connection_established", "pong", "error", "unknown", "garbage"}

\* What handleMessage(event) does to the connection: JSON.parse (a throw
\* ends the handler in its catch), lastActivity = Date.now(), then the
\* handler of the type: handleWelcome sets 'connected' and sends init,
\* handleConnectionEstablished sets 'connected', handlePong sets lastActivity.
handleMessage(c, type) ==
    LET a == [c EXCEPT !.lastActivity = 0]
    IN IF type = "garbage" THEN c
       ELSE IF type = "welcome" THEN sendMessage(setStatus(a, "connected"))
       ELSE IF type = "connection_established" THEN setStatus(a, "connected")
       ELSE a

\* handleWsError(event)
handleWsError(c) == setStatus(c, "error")

\* handleClose(event): this.ws = null whichever socket has closed; 1000 and
\* 1001 end in 'disconnected'; 1006 in 'error' and a timer of 1000 ms, kept
\* in no field, that calls scheduleReconnect(); any other code in 'error'
\* and scheduleReconnect() at once.
handleClose(c, code) ==
    LET n == [c EXCEPT !.ws = 0]
    IN IF code \in {1000, 1001} THEN setStatus(n, "disconnected")
       ELSE IF code = 1006
            THEN IF n.closeRetries[0] + n.closeRetries[Ticks(CloseRetryDelay)] >= MaxCloseRetries
                 THEN [c EXCEPT !.overflow = TRUE]
                 ELSE [setStatus(n, "error") EXCEPT !.closeRetries = Arm(@, CloseRetryDelay)]
       ELSE scheduleReconnect(setStatus(n, "error"))

\* The callback of the ping timer: reconnect() when nothing was sent or
\* received for more than twice the ping interval, else sendPing().
pingTimerCallback(c) ==
    IF Elapsed(c.lastActivity) > PingInterval * 2 THEN reconnect(c) ELSE sendMessage(c)

\* Time passes for the connection.  lastActivity is read by the ping timer's
\* callback only, and handleOpen sets it before it arms that timer: its age
\* (and the age of the last inbound message) is followed while the timer is
\* armed.
tickConn(c) ==
    [c EXCEPT !.reconnectTimer = Sooner(@),
              !.pingTimer = Sooner(@),
              !.closeRetries = Shift(@),
              !.lastActivity = IF c.pingTimer = Null THEN @ ELSE Older(@, PingInterval * 2),
              !.lastInbound = IF c.pingTimer = Null THEN @ ELSE Older(@, PingInterval * 2),
              !.wsmReconnects = Shift(@),
              !.svcReconnectTimer = Sooner(@),
              !.wsmTimeouts = [s \in SocketIds |-> Sooner(@[s])]]

\* The application calls connect(), disconnect() or reconnect().
Connect ==
    LET c == [connect(Conn) EXCEPT !.intentional = FALSE]
    IN /\ Fits(c)
       /\ CommitConn(c)
Disconnect ==
    LET c == [disconnect(Conn) EXCEPT !.intentional = TRUE]
    IN /\ Fits(c)
       /\ CommitConn(c)
Reconnect ==
    LET c == [reconnect(Conn) EXCEPT !.intentional = FALSE]
    IN /\ Fits(c)
       /\ CommitConn(c)

\* A connecting socket opens: its onopen handler runs.
SocketOpen ==
    \E s \in SocketIds :
        LET c == handleOpen(Inbound([Conn EXCEPT !.sockets = [@ EXCEPT ![s] = "OPEN"]]))
        IN /\ sockets[s] = "CONNECTING"
           /\ CommitConn(c)

\* An open socket delivers a message: its onmessage handler runs.
SocketMessage ==
    \E s \in SocketIds, type \in ConnMessageTypes :
        LET c == handleMessage(Inbound(Conn), type)
        IN /\ sockets[s] = "OPEN"
           /\ CommitConn(c)

\* A socket closes, by the peer, by the network or after close(): its
\* onclose handler runs, after its onerror handler when the connection has
\* failed.  A socket that never opened closes with 1006.
SocketClose ==
    \E s \in SocketIds, code \in CloseCodes, failed \in BOOLEAN :
        LET gone == [Conn EXCEPT !.sockets = [@ EXCEPT ![s] = "NONE"]]
            c == handleClose(IF failed THEN handleWsError(gone) ELSE gone, code)
        IN /\ sockets[s] # "NONE"
           /\ sockets[s] \in {"CONNECTING", "FAILING"} \/ failed => code = 1006
           /\ Fits(c)
           /\ CommitConn(c)

\* The reconnect timer of scheduleReconnect is due: connect().
ReconnectFire ==
    LET c == connect([Conn EXCEPT !.reconnectTimer = Null])
    IN /\ reconnectTimer = 0
       /\ Fits(c)
       /\ CommitConn(c)

\* The 1000 ms timer of a 1006 close is due: scheduleReconnect().
CloseRetryFire ==
    LET c == scheduleReconnect([Conn EXCEPT !.closeRetries = Disarm(@)])
    IN /\ closeRetries[0] > 0
       /\ CommitConn(c)

\* The ping timer (an interval) is due.
PingFire ==
    LET c == pingTimerCallback([Conn EXCEPT !.pingTimer = Ticks(PingInterval)])
    IN /\ pingTimer = 0
       /\ Fits(c)
       /\ CommitConn(c)

\* The application calls sendMessage(message).
SendMessage ==
    LET c == sendMessageCall(Conn)
    IN /\ Fits(c)
       /\ CommitConn(c)

\* ------------------------------------------- WebSocketManager connection
\* The manager's connection of one endpoint (the viewer uses /ws/command).
\* Its transports are in slots as those of the MCP client are.

\* disconnect(endpoint): the socket of the endpoint is closed and forgotten
\* (its handlers stay bound to the manager).
wsmDisconnect(c) ==
    IF c.wsmConnection = 0
    THEN c
    ELSE [c EXCEPT !.wsmSockets = [@ EXCEPT ![c.wsmConnection] = Closed(@)], !.wsmConnection = 0]

\* connections.get(endpoint) is an open socket.
wsmOpen(c) == c.wsmConnection # 0 /\ c.wsmSockets[c.wsmConnection] = "OPEN"

\* connect(endpoint) up to its return of the promise: the socket of the
\* endpoint is returned when it is open; one that is not open is
\* disconnected; then a new WebSocket is created, its connection timeout is
\* armed and it becomes the socket of the endpoint.  `retrying` tells that
\* the caller is the reconnect timer, whose catch calls handleReconnect.
wsmConnect(c, retrying) ==
    IF wsmOpen(c)
    THEN c
    ELSE LET d == wsmDisconnect(c)
             free == {s \in SocketIds : d.wsmSockets[s] = "NONE"}
             s == CHOOSE x \in free : \A y \in free : x <= y
         IN IF free = {}
            THEN [c EXCEPT !.overflow = TRUE]
            ELSE [d EXCEPT !.wsmSockets = [@ EXCEPT ![s] = "CONNECTING"],
                           !.wsmTimeouts = [@ EXCEPT ![s] = Ticks(ConnectionTimeout)],
                           !.wsmRetrying = IF retrying THEN @ \cup {s} ELSE @,
                           !.wsmConnection = s]

\* handleReconnect(endpoint): nothing once the attempts are used up;
\* otherwise one more attempt is counted and connect(endpoint) is called in
\* reconnectDelay ms, by a timer kept in no field.
wsmHandleReconnect(c) ==
    IF c.wsmReconnectAttempts >= WsmMaxReconnectAttempts
    THEN c
    ELSE IF c.wsmReconnects[0] + c.wsmReconnects[Ticks(WsmReconnectDelay)] >= MaxWsmReconnects
    THEN [c EXCEPT !.overflow = TRUE]
    ELSE [c EXCEPT !.wsmReconnectAttempts = @ + 1,
                   !.wsmReconnects = Arm(@, WsmReconnectDelay)]

\* handleClose(endpoint): the endpoint's entry is deleted whichever socket
\* has closed, then handleReconnect(endpoint).
wsmHandleClose(c) == wsmHandleReconnect([c EXCEPT !.wsmConnection = 0])

\* send(endpoint, message): throws unless the socket of the endpoint is
\* open; otherwise the message is handed to it.
wsmSend(c) == [c EXCEPT !.wsmLastSend = IF wsmOpen(c) THEN "sent" ELSE "thrown"]

\* The application calls connect(endpoint) or disconnect(endpoint).
WsmConnect ==
    LET c == wsmConnect(Conn, FALSE)
    IN /\ Fits(c)
       /\ CommitConn(c)
WsmDisconnect ==
    LET c == wsmDisconnect(Conn)
    IN /\ Fits(c)
       /\ CommitConn(c)
\* The application calls send(endpoint, message).
WsmSend ==
    LET c == wsmSend(Conn)
    IN /\ Fits(c)
       /\ CommitConn(c)

\* A slot is free again: its connection timeout does nothing any more.
wsmGone(c, s) ==
    [c EXCEPT !.wsmSockets = [@ EXCEPT ![s] = "NONE"],
              !.wsmTimeouts = [@ EXCEPT ![s] = Null],
              !.wsmRetrying = @ \ {s}]

\* A connecting socket opens: the onopen handler of connect runs.
WsmSocketOpen ==
    \E s \in SocketIds :
        LET c == [Conn EXCEPT !.wsmSockets = [@ EXCEPT ![s] = "OPEN"],
                              !.wsmTimeouts = [@ EXCEPT ![s] = Null],
                              !.wsmReconnectAttempts = 0]
        IN /\ wsmSockets[s] = "CONNECTING"
           /\ CommitConn(c)

\* A socket closes.  One that never opened has failed: its onerror handler
\* (the one connect has set last) rejects the promise, which the reconnect
\* timer's catch answers with handleReconnect; then onclose runs.
WsmSocketClose ==
    \E s \in SocketIds :
        LET failed == wsmSockets[s] \in {"CONNECTING", "FAILING"}
            caught == IF failed /\ s \in wsmRetrying THEN wsmHandleReconnect(Conn) ELSE Conn
            c == IF caught.overflow THEN caught ELSE wsmHandleClose(wsmGone(caught, s))
        IN /\ wsmSockets[s] # "NONE"
           /\ Fits(c)
           /\ CommitConn(c)

\* The connection timeout of a socket is due: close() unless it is open.
WsmTimeoutFire ==
    \E s \in SocketIds :
        LET c == [Conn EXCEPT !.wsmTimeouts = [@ EXCEPT ![s] = Null],
                              !.wsmSockets = [@ EXCEPT ![s] = IF @ = "OPEN" THEN @ ELSE Closed(@)]]
        IN /\ wsmTimeouts[s] = 0
           /\ CommitConn(c)

\* A reconnect timer of handleReconnect is due: connect(endpoint).
WsmReconnectFire ==
    LET c == wsmConnect([Conn EXCEPT !.wsmReconnects = Disarm(@)], TRUE)
    IN /\ wsmReconnects[0] > 0
       /\ Fits(c)
       /\ CommitConn(c)

\* ----------------------------------------- ModelControlService connection
\* wsConnection && (readyState === OPEN || readyState === CONNECTING)
svcReady(c) == c.wsConnection # 0 /\ c.svcSockets[c.wsConnection] \in {"CONNECTING", "OPEN"}

\* initWebSocketConnection(): the existing socket when it is open or
\* connecting; otherwise status 'connecting' and a new WebSocket, with its
\* four handlers, becomes wsConnection.
initWebSocketConnection(c) ==
    IF svcReady(c)
    THEN c
    ELSE LET free == {s \in SocketIds : c.svcSockets[s] = "NONE"}
             s == CHOOSE x \in free : \A y \in free : x <= y
         IN IF free = {}
            THEN [c EXCEPT !.overflow = TRUE]
            ELSE [c EXCEPT !.connectionStatus = "connecting",
                           !.svcSockets = [@ EXCEPT ![s] = "CONNECTING"],
                           !.wsConnection = s]

\* sendMessage(message): when wsConnection is not open,
\* initWebSocketConnection() is called and false returned.
svcSendMessage(c) ==
    IF c.wsConnection # 0 /\ c.svcSockets[c.wsConnection] = "OPEN"
    THEN [c EXCEPT !.svcLastSend = "true"]
    ELSE [initWebSocketConnection(c) EXCEPT !.svcLastSend = "false"]

\* wsConnection.onopen
svcOnOpen(c) ==
    svcSendMessage([c EXCEPT !.connectionStatus = "connected", !.connectionError = "null",
                             !.svcReconnectAttempts = 0])

\* wsConnection.onerror
svcOnError(c) == [c EXCEPT !.connectionStatus = "error", !.connectionError = "error"]

\* wsConnection.onclose: status 'disconnected' and wsConnection = null
\* whichever socket has closed; while attempts are left the reconnect timer
\* is armed anew with min(1000 * 2^reconnectAttempts, 30000) ms, otherwise
\* connectionError tells that reconnecting has stopped.
svcOnClose(c) ==
    LET n == [c EXCEPT !.connectionStatus = "disconnected", !.wsConnection = 0]
    IN IF n.svcReconnectAttempts < SvcMaxReconnectAttempts
       THEN [n EXCEPT !.svcReconnectTimer =
                          Ticks(Min(SvcBaseDelay * 2^n.svcReconnectAttempts, SvcMaxDelay))]
       ELSE [n EXCEPT !.connectionError = "failed"]

\* closeConnection()
closeConnection(c) ==
    LET closed == IF c.wsConnection # 0
                  THEN [c EXCEPT !.svcSockets = [@ EXCEPT ![c.wsConnection] = Closed(@)],
                                 !.wsConnection = 0]
                  ELSE c
    IN [closed EXCEPT !.svcReconnectTimer = Null, !.connectionStatus = "disconnected"]

\* The application calls initWebSocketConnection(), sendMessage(message) or
\* closeConnection().
SvcInit ==
    LET c == initWebSocketConnection(Conn)
    IN /\ Fits(c)
       /\ CommitConn(c)
SvcSend ==
    LET c == svcSendMessage(Conn)
    IN /\ Fits(c)
       /\ CommitConn(c)
SvcCloseConnection ==
    LET c == closeConnection(Conn)
    IN /\ Fits(c)
       /\ CommitConn(c)

\* A connecting socket opens.
SvcSocketOpen ==
    \E s \in SocketIds :
        LET c == svcOnOpen([Conn EXCEPT !.svcSockets = [@ EXCEPT ![s] = "OPEN"]])
        IN /\ svcSockets[s] = "CONNECTING"
           /\ Fits(c)
           /\ CommitConn(c)

\* An open socket delivers a 'ping': handleIncomingMessage answers with
\* sendMessage({type: 'pong'}).
SvcSocketPing ==
    \E s \in SocketIds :
        LET c == svcSendMessage(Conn)
        IN /\ svcSockets[s] = "OPEN"
           /\ Fits(c)
           /\ CommitConn(c)

\* Socket s closes, after an error event when `failed`: a socket that never
\* opened has failed.
SvcClose(s, failed) ==
    LET gone == [Conn EXCEPT !.svcSockets = [@ EXCEPT ![s] = "NONE"]]
        c == svcOnClose(IF failed THEN svcOnError(gone) ELSE gone)
    IN /\ svcSockets[s] # "NONE"
       /\ svcSockets[s] \in {"CONNECTING", "FAILING"} => failed
       /\ CommitConn(c)
SvcSocketClose == \E s \in SocketIds, failed \in BOOLEAN : SvcClose(s, failed)

\* The reconnect timer is due: reconnectAttempts++, initWebSocketConnection().
SvcReconnectFire ==
    LET c == initWebSocketConnection([Conn EXCEPT !.svcReconnectTimer = Null,
                                                  !.svcReconnectAttempts = @ + 1])
    IN /\ svcReconnectTimer = 0
       /\ Fits(c)
       /\ CommitConn(c)

\* ------------------------------------------------------------------ inputs
Rotate(axis, angle) == [axis |-> axis, angle |-> angle]
Focus(targetId) == [targetId |-> targetId]

\* Messages on /ws/command as handleWebSocketMessage reads them.
QueueMessages ==
    {[operation |-> "rotate", params |-> Rotate("y", 30), idShape |-> "plain"],
     [operation |-> "rotate", params |-> Rotate("y", 40), idShape |-> "plain"],
     [operation |-> "focus", params |-> Focus("A"), idShape |-> "none"],
     [operation |-> "focus", params |-> Focus("B"), idShape |-> "plain"],
     [operation |-> "focus", params |-> Focus("A"), idShape |-> "same"],
     [operation |-> "reset", params |-> EmptyParams, idShape |-> "num"]}

\* Commands the MCP server pushes (message.command of a 'command' message).
McpCommands ==
    {[action |-> "rotate", parameters |-> [direction |-> "left", angle |-> 45]],
     [action |-> "reset", parameters |-> EmptyParams]}

\* ----------------------------------------------------------------- actions
\* Any caller of acquireLock().
AcquireCall ==
    LET s == acquireLock(State)
    IN /\ Fits(s)
       /\ Commit(s)

\* Any caller of releaseLock().
ReleaseCall ==
    LET s == releaseLock(State)
    IN /\ Fits(s)
       /\ Commit(s)

\* Any caller of reset().
ResetCall ==
    LET s == reset(State)
    IN /\ Fits(s)
       /\ Commit(s)

\* Any caller of registerCommand(operation, params).
ManagerCommands ==
    {[operation |-> "rotate", params |-> Rotate("y", 30)],
     [operation |-> "reset", params |-> EmptyParams]}
RegisterCall ==
    \E c \in ManagerCommands :
        LET s == registerCommand(State, c.operation, c.params)
        IN /\ Fits(s)
           /\ Commit(s)

\* Any caller of markAsExecuted(commandId) with an id registerCommand returned.
MarkCall ==
    \E id \in DOMAIN pendingRecords :
        /\ id \in DOMAIN pendingRecords
        /\ Commit(markAsExecuted(State, id))

\* Parameter objects of rotate and zoom commands.
Turn(direction, angle) == [direction |-> direction, angle |-> angle]
ZoomBy(direction, distance) == [direction |-> direction, distance |-> distance]
ZoomValue(value) == [value |-> value]
ZoomScale(scale) == [scale |-> scale]

\* The commands callers register with the manager and later mark executed,
\* and the questions they ask isCommandExecuted.
JudgedCommands ==
    {[operation |-> "rotate", params |-> Rotate("y", 0 - 10)],
     [operation |-> "zoom", params |-> ZoomBy("in", 10)],
     [operation |-> "zoom", params |-> ZoomValue(15)],
     [operation |-> "zoom", params |-> ZoomScale(15)],
     [operation |-> "reset", params |-> EmptyParams]}
JudgeQuestions ==
    {[operation |-> "rotate", params |-> Rotate("y", angle)] : angle \in {0 - 10, 0, 4, 5, 20}}
    \cup {[operation |-> "rotate", params |-> Rotate("x", 4)],
          [operation |-> "rotate", params |-> Turn("left", 50)],
          [operation |-> "zoom", params |-> ZoomBy("in", 12)],
          [operation |-> "zoom", params |-> ZoomBy("in", 13)],
          [operation |-> "zoom", params |-> ZoomBy("out", 10)],
          [operation |-> "zoom", params |-> ZoomValue(17)],
          [operation |-> "zoom", params |-> ZoomValue(18)],
          [operation |-> "zoom", params |-> ZoomScale(16)],
          [operation |-> "zoom", params |-> ZoomScale(25)],
          [operation |-> "reset", params |-> EmptyParams],
          [operation |-> "reset", params |-> Focus("A")]}

\* Any caller of registerCommand(operation, params) with these commands.
RegisterJudged ==
    \E c \in JudgedCommands :
        LET s == registerCommand(State, c.operation, c.params)
        IN /\ Fits(s)
           /\ Commit(s)

\* A caller of markAsExecuted(commandId) whose command is no longer in
\* pendingCommands (the sweep has removed it, or it was marked before).
StaleIds == {[op |-> op, shape |-> "gen", n |-> n] : op \in {"rotate", "reset"}, n \in 1..MaxIds}
MarkStaleCall ==
    \E id \in StaleIds :
        /\ id \notin DOMAIN pendingRecords
        /\ id.n \notin UsedSerials(State) \/ id \in DOMAIN executedCommands
        /\ Commit(markAsExecuted(State, id))

\* handleExecuteAction(action) of the app shell with executeWithRetry, which
\* runs in the same task: a command judged executed is skipped; otherwise
\* the lock is taken, the command registered, the viewer (or the global
\* method) called, the command marked when that returned something truthy,
\* and the lock released.  When the lock is refused, the call is repeated
\* by a timer.
ShellActions ==
    {[type |-> "rotate", params |-> Turn("left", 45)],
     [type |-> "rotate", params |-> Turn("left", 50)]}

\* retryCount > maxRetries
retryGivesUpLate(retryCount, maxRetries) == retryCount > maxRetries + 1
retryGivesUp(retryCount, maxRetries) == retryCount > maxRetries

\* executeWithRetry(action, retryCount, maxRetries); `waited` is the delay
\* of the timer that made the call, 0 for the call of handleExecuteAction.
executeWithRetry(s, action, retryCount, maxRetries, waited, truthy) ==
    IF retryGivesUp(retryCount, maxRetries) THEN s
    ELSE LET held == acquireLock(s)
             commandKey == NewId(held, action.type, "gen")
             registered == registerCommand(held, action.type, action.params)
             delay == ShellRetryBase * (retryCount + 1)
             retry == [action |-> action, retryCount |-> retryCount + 1, maxRetries |-> maxRetries,
                       timer |-> Ticks(delay), delay |-> delay, waited |-> waited]
         IN IF held.overflow THEN held
            ELSE IF held.lastAcquire = "false"
            THEN IF retry \in s.shellRetries \/ Cardinality(s.shellRetries) >= MaxShellRetries
                 THEN [s EXCEPT !.overflow = TRUE]
                 ELSE [held EXCEPT !.shellRetries = @ \cup {retry}]
            ELSE IF registered.overflow THEN registered
            ELSE releaseLock(IF truthy THEN markAsExecuted(registered, commandKey) ELSE registered)

handleExecuteAction(s, action, truthy) ==
    IF isCommandExecuted(s, action.type, action.params) THEN s
    ELSE executeWithRetry(s, action, 0, ShellMaxRetries, 0, truthy)
ExecuteAction(action) ==
    \E truthy \in BOOLEAN :
        LET s == handleExecuteAction(State, action, truthy)
        IN /\ Fits(s)
           /\ Commit(s)
ShellAction == \E action \in ShellActions : ExecuteAction(action)
\* The chat window asks for its default rotation.
ShellTurn == ExecuteAction([type |-> "rotate", params |-> Turn("left", 45)])

\* A retry timer of executeWithRetry is due.
RetryFire(r) ==
    \E truthy \in BOOLEAN :
        LET s == executeWithRetry([State EXCEPT !.shellRetries = @ \ {r}], r.action, r.retryCount,
                                  r.maxRetries, r.delay, truthy)
        IN /\ r.timer = 0
           /\ Fits(s)
           /\ Commit(s)
ShellRetryFire == \E r \in shellRetries : RetryFire(r)

\* Any caller of isCommandExecuted(operation, params).
Ask(q) ==
    LET s == isCommandExecutedCall(State, q.operation, q.params)
    IN /\ Fits(s)
       /\ Commit(s)
IsExecutedCall == \E q \in JudgeQuestions : Ask(q)
\* A caller asks about a command before registering it.
IsRegisteredExecuted == \E q \in ManagerCommands : Ask(q)

\* The watchdog armed by acquireLock() runs: a warning and releaseLock().
WatchdogFire ==
    \E h \in Handles :
        /\ watchdogs[h] = 0
        /\ Commit([releaseLock([State EXCEPT !.watchdogs[h] = Null]) EXCEPT !.lastWarning = "watchdog"])

\* setInterval(() => this.cleanupExpiredRecords(), 5000)
CleanupSweep ==
    /\ cleanupTimer = 0
    /\ Commit([cleanupExpiredRecords(State) EXCEPT !.cleanupTimer = Ticks(CleanupInterval)])

\* One tick of time.
Aged(records) == [id \in DOMAIN records |-> [records[id] EXCEPT !.age = Older(@, RecordTTL)]]
tick(s) ==
    [s EXCEPT !.lockAge = Older(@, MaxLockTime),
              !.watchdogs = [h \in Handles |-> Sooner(@[h])],
              !.cleanupTimer = Sooner(@),
              !.executedCommands = Aged(@),
              !.pendingRecords = Aged(@),
              !.drainTimers = Shift(@),
              !.retryTimers = Shift(@),
              !.shellRetries = {[r EXCEPT !.timer = Sooner(@)] : r \in @}]
Tick ==
    LET s == tick(State)
    IN /\ Fits(s)
       /\ Assign(s)
       /\ calls' = [k \in 1..Len(calls) |-> [calls[k] EXCEPT !.timer = Sooner(@)]]
       /\ UNCHANGED <<wsmPending, mcpCallbacks, panelPending, thrown, lastStray>>
       /\ AssignConn(tickConn(Conn))

\* A message arrives on /ws/command and the manager hands it to
\* handleWebSocketMessage; the nextTick callback runs in the same task.
CommandMessage(message) ==
    \E mcpConnected \in BOOLEAN :
        LET s == handleWebSocketMessage(State, message, mcpConnected)
        IN /\ Fits(s)
           /\ Commit(s)
WebSocketCommand == \E message \in QueueMessages : CommandMessage(message)

\* The MCP server pushes a command: MCPClient.handleMessage notes the
\* activity and hands the message to the viewer.
McpCommandMessage ==
    \E command \in McpCommands :
        LET s == onCommandMessage(State, command)
        IN /\ Fits(s)
           /\ Assign(s)
           /\ AssignConn(handleMessage(Inbound(Conn), "command"))
           /\ UNCHANGED corrVars

\* The answer to (or the timeout of) a direct call arrives.
DirectFinish ==
    \E call \in direct, marked \in BOOLEAN :
        /\ call \in direct
        /\ Commit(directFinish(State, call, marked))

\* The 1500 ms pause of the drain is over.
DrainContinue ==
    /\ drainTimers[0] > 0
    /\ \E mcpConnected \in BOOLEAN :
          LET s == drainContinue(State, mcpConnected)
          IN Fits(s) /\ Commit(s)

\* The parent calls the exposed executeQueuedCommands (the window event
\* 'execute-queued-commands').
ExposedExecute ==
    \E mcpConnected \in BOOLEAN :
        LET s == executeQueuedCommands(State, mcpConnected)
        IN /\ Fits(s)
           /\ Commit(s)

\* ------------------------------------------------------------- correlation
\* Command ids are built from Date.now() and a random number by every sender
\* (`cmd_${Date.now()}_${random}`): the k-th command sent carries id k,
\* unless the same millisecond and random number (or a caller of sendCommand
\* that passes its own id) give it the id of an earlier command: `alias`.
\* 0 stands for a field that is absent from a message.
CorrIds == 1..MaxCalls

\* A command sent for correlation and what its caller has seen of it:
\* `results` counts the results delivered to the caller (the promise's
\* settlement, or the invocations of the callback), `outcome` is the first
\* of them, `timer` the ticks left of its timeout (Null: none armed).
\* answered / expired / late record what happened to it: a response with its
\* id has arrived; its deadline passed before any response; a response
\* arrived after that.  alias: the earlier command whose id it carries (0:
\* an id of its own).
NewCall(via, outcome, timer) ==
    [via |-> via, outcome |-> outcome, results |-> IF outcome = "none" THEN 0 ELSE 1,
     timer |-> timer, answered |-> FALSE, expired |-> FALSE, late |-> FALSE, alias |-> 0]

\* The id command k was sent with, the commands of a table that were stored
\* under an id, and the one whose entry the table holds for it: map.set(id, ..)
\* and callbacks[id] = .. replace the entry of an earlier command.
CallId(cs, k) == IF cs[k].alias = 0 THEN k ELSE cs[k].alias
Carriers(cs, id, via) == {k \in 1..Len(cs) : cs[k].via = via /\ CallId(cs, k) = id}
HolderFirst(cs, id, via) == CHOOSE k \in 1..Len(cs) : cs[k].via = via /\ \A j \in 1..(k - 1) : cs[j].via # via
Holder(cs, id, via) == CHOOSE k \in Carriers(cs, id, via) : \A j \in Carriers(cs, id, via) : j <= k

\* resolve(value) / reject(error) of a promise: the first call settles it,
\* the later ones do nothing.
SettleAgain(call, outcome) == [call EXCEPT !.outcome = outcome, !.results = Min(@ + 1, 2)]
Settle(call, outcome) ==
    IF call.results = 0 THEN [call EXCEPT !.outcome = outcome, !.results = 1] ELSE call

\* callback(message) of MCPClient.commandCallbacks: every call of it is a result.
Invoke(call, outcome) ==
    [call EXCEPT !.outcome = IF call.results = 0 THEN outcome ELSE @, !.results = Min(@ + 1, 2)]

\* What a response with id `id` arriving at `via` does to the record of the
\* command it names.
Named(cs, id, via) == id \in 1..Len(cs) /\ cs[id].via = via
Answered(cs, id, via) ==
    IF Named(cs, id, via)
    THEN [cs EXCEPT ![id] = [@ EXCEPT !.answered = TRUE, !.late = @ \/ cs[id].expired]]
    ELSE cs
\* What a response has found: "none" when its command is awaited; else how
\* the id came not to be awaited.
Stray(cs, id, via) ==
    IF ~Named(cs, id, via) THEN "unknown"
    ELSE IF cs[id].results = 0 THEN "none"
    ELSE IF cs[id].expired THEN "expired"
    ELSE "resolved"
StrayAfter(cs, id, via) == IF Stray(cs, id, via) = "none" THEN lastStray ELSE Stray(cs, id, via)

\* A timer of a command runs out: the deadline has passed, with or without
\* a response before it.
Due(call) == [call EXCEPT !.timer = Null, !.expired = ~call.answered]

\* An error raised in a handler leaves it unless a try block is around it.
Escapes(raised, insideTry) == raised /\ ~insideTry

\* --- WebSocketManager
\* this.pendingCommands.has(commandId) in the timeout callback.
timeoutDueNever(pending, id) == FALSE
timeoutDue(pending, id) == id \in pending

\* sendCommand(endpoint, command) with a command object: it throws when the
\* socket is not open; otherwise the entry is stored, the command is sent and
\* the 5000 ms timeout is armed.  `sendThrows`: JSON.stringify or ws.send throws.
SendCommand ==
    \E open \in BOOLEAN, sendThrows \in BOOLEAN :
        /\ Len(calls) < MaxCalls
        /\ open \/ ~sendThrows
        /\ calls' = Append(calls,
              IF ~open \/ sendThrows THEN NewCall("wsm", "error", Null)
              ELSE NewCall("wsm", "none", Ticks(CommandTimeout)))
        /\ wsmPending' = IF open THEN wsmPending \cup {Len(calls) + 1} ELSE wsmPending
        /\ UNCHANGED <<mcpCallbacks, panelPending, thrown, lastStray>>
        /\ UNCHANGED <<viewerVars, connVars>>

\* sendCommand(endpoint, command) on an open socket with a command whose id
\* is the id of an entry in pendingCommands: set(commandId, ..) replaces the
\* entry, then the command is sent and the timeout armed.
SendCommandSameId ==
    \E id \in wsmPending, sendThrows \in BOOLEAN :
        /\ Len(calls) < MaxCalls
        /\ calls' = Append(calls,
              [(IF sendThrows THEN NewCall("wsm", "error", Null)
                ELSE NewCall("wsm", "none", Ticks(CommandTimeout))) EXCEPT !.alias = id])
        /\ UNCHANGED <<wsmPending, mcpCallbacks, panelPending, thrown, lastStray>>
        /\ UNCHANGED <<viewerVars, connVars>>

\* The timeout callback of sendCommand: the entry is kept and the promise is
\* resolved with {success: false, status: 'timeout'}.
CommandTimeoutFire ==
    \E k \in 1..Len(calls) :
        /\ calls[k].via = "wsm"
        /\ calls[k].timer = 0
        /\ calls' = [calls EXCEPT ![k] =
              IF timeoutDue(wsmPending, CallId(calls, k)) THEN Settle(Due(@), "timeout") ELSE Due(@)]
        /\ UNCHANGED <<wsmPending, mcpCallbacks, panelPending, thrown, lastStray>>
        /\ UNCHANGED <<viewerVars, connVars>>

\* The places of a message where handleMessage looks for the command id, in
\* its order of priority.
IdPlaces == <<"command_id", "commandId", "command.id", "result.command_id", "id">>
Message(type, place, id) ==
    [type |-> type, garbage |-> FALSE] @@ [p \in {IdPlaces[i] : i \in 1..Len(IdPlaces)} |-> IF p = place THEN id ELSE 0]
Garbage == [Message("none", "id", 0) EXCEPT !.garbage = TRUE]
WsmMessages ==
    {Message("mcp.response", IdPlaces[p], id) : p \in 1..Len(IdPlaces), id \in CorrIds}
    \cup {Message("heartbeat_response", "id", id) : id \in CorrIds}
    \cup {Message("mcp.response", "id", 0), Garbage}

\* data.command_id || data.commandId || (data.command && data.command.id) ||
\* (data.result && data.result.command_id) || data.id
wsmCommandId(data) ==
    IF data[IdPlaces[1]] # 0 THEN data[IdPlaces[1]]
    ELSE IF data[IdPlaces[2]] # 0 THEN data[IdPlaces[2]]
    ELSE IF data[IdPlaces[3]] # 0 THEN data[IdPlaces[3]]
    ELSE IF data[IdPlaces[4]] # 0 THEN data[IdPlaces[4]]
    ELSE data[IdPlaces[5]]

\* handleMessage(event, endpoint) with no message handler registered for the
\* endpoint: JSON.parse, the heartbeat test, the lookup, resolve(data) and
\* the removal of the entry, all inside try.
wsmResolves(data) ==
    /\ ~data.garbage
    /\ data.type # "heartbeat_response"
    /\ wsmCommandId(data) # 0
    /\ wsmCommandId(data) \in wsmPending
wsmHandled(data) ==
    LET id == wsmCommandId(data)
        seen == IF data.garbage \/ data.type = "heartbeat_response" THEN calls ELSE Answered(calls, id, "wsm")
    IN /\ calls' = IF wsmResolves(data) THEN [seen EXCEPT ![Holder(seen, id, "wsm")] = Settle(@, "response")] ELSE seen
       /\ wsmPending' = IF wsmResolves(data) THEN wsmPending \ {id} ELSE wsmPending
       /\ thrown' = (thrown \/ Escapes(data.garbage, TRUE))
       /\ lastStray' = IF data.garbage \/ data.type = "heartbeat_response" \/ id = 0 THEN lastStray
                       ELSE StrayAfter(calls, id, "wsm")
       /\ UNCHANGED <<mcpCallbacks, panelPending>>
WsmHandleMessage(data) ==
    /\ wsmHandled(data)
    /\ UNCHANGED <<viewerVars, connVars>>
WsmMessage == \E data \in WsmMessages : WsmHandleMessage(data)

\* What handleWebSocketMessage reads in a message of the manager's own
\* protocol: const {operation, params, id} = message finds no operation and
\* no params, and an id only when the message carries it as data.id.
AsQueueMessage(data) ==
    [operation |-> "none", params |-> EmptyParams,
     idShape |-> IF data[IdPlaces[5]] # 0 THEN "plain" ELSE "none"]

\* handleMessage(event, endpoint) on /ws/command once the viewer has
\* registered handleWebSocketMessage with onMessage: after JSON.parse every
\* message is first handed to the handlers of the endpoint, then the
\* heartbeat test and the lookup in pendingCommands follow.
EndpointMessage(data) ==
    \E mcpConnected \in BOOLEAN :
        LET s == IF data.garbage THEN State
                 ELSE handleWebSocketMessage(State, AsQueueMessage(data), mcpConnected)
        IN /\ Fits(s)
           /\ Assign(s)
           /\ wsmHandled(data)
           /\ UNCHANGED connVars
CommandEndpointMessage == \E data \in WsmMessages : EndpointMessage(data)

\* --- MCPClient
\* executeCommand(action, parameters, target, callback): the callback is
\* stored under the new command id, then sendMessage is called, which
\* returns false when the socket is not open.  No timer is armed.
ExecuteCommand ==
    /\ Len(calls) < MaxCalls
    /\ calls' = Append(calls, NewCall("mcp", "none", Null))
    /\ mcpCallbacks' = mcpCallbacks \cup {Len(calls) + 1}
    /\ AssignConn(sendMessage(Conn))
    /\ UNCHANGED <<wsmPending, panelPending, thrown, lastStray>>
    /\ UNCHANGED viewerVars

\* executeCommand when generateId returns the id of a stored callback.
ExecuteCommandSameId ==
    \E id \in mcpCallbacks :
        /\ Len(calls) < MaxCalls
        /\ calls' = Append(calls, [NewCall("mcp", "none", Null) EXCEPT !.alias = id])
        /\ AssignConn(sendMessage(Conn))
        /\ UNCHANGED <<wsmPending, mcpCallbacks, panelPending, thrown, lastStray>>
        /\ UNCHANGED viewerVars

\* Messages of type 'response' with the command id at any of the places a
\* server may put it; handleResponse reads message.commandId.
McpMessages ==
    {Message("response", IdPlaces[p], id) : p \in 1..Len(IdPlaces), id \in 0..MaxCalls} \cup {Garbage}

\* handleMessage(event) for a message of type 'response': JSON.parse,
\* lastActivity, config.onMessage, then handleResponse, all inside try.
\* `answered` notes the command the server has answered, wherever the
\* response carries its id.
mcpResolves(message) ==
    /\ ~message.garbage
    /\ message.commandId # 0
    /\ message.commandId \in mcpCallbacks
McpHandleResponse(message) ==
    LET id == message.commandId
        seen == IF message.garbage THEN calls ELSE Answered(calls, wsmCommandId(message), "mcp")
    IN /\ calls' = IF mcpResolves(message) THEN [seen EXCEPT ![Holder(seen, id, "mcp")] = Invoke(@, "response")] ELSE seen
       /\ mcpCallbacks' = IF mcpResolves(message) THEN mcpCallbacks \ {id} ELSE mcpCallbacks
       /\ thrown' = (thrown \/ Escapes(message.garbage, TRUE))
       /\ lastStray' = IF message.garbage \/ id = 0 THEN lastStray ELSE StrayAfter(calls, id, "mcp")
       /\ AssignConn(handleMessage(Inbound(Conn), IF message.garbage THEN "garbage" ELSE "response"))
       /\ UNCHANGED <<wsmPending, panelPending>>
       /\ UNCHANGED viewerVars
McpResponseMessage == \E message \in McpMessages : McpHandleResponse(message)

\* --- the control panel's WebSocketManager
\* sendMCPCommand(command): rejected when not connected; otherwise the entry
\* is stored with its 10000 ms timeout and the command is sent; when
\* socket.send throws, the timeout is cleared, the entry removed and the
\* promise rejected.
SendMCPCommand ==
    \E isConnected \in BOOLEAN, sendThrows \in BOOLEAN :
        /\ Len(calls) < MaxCalls
        /\ isConnected \/ ~sendThrows
        /\ calls' = Append(calls,
              IF ~isConnected \/ sendThrows THEN NewCall("panel", "error", Null)
              ELSE NewCall("panel", "none", Ticks(PanelTimeout)))
        /\ panelPending' = IF isConnected /\ ~sendThrows THEN panelPending \cup {Len(calls) + 1} ELSE panelPending
        /\ UNCHANGED <<wsmPending, mcpCallbacks, thrown, lastStray>>
        /\ UNCHANGED <<viewerVars, connVars>>

\* The timeout callback of sendMCPCommand: the entry is removed and the
\* promise rejected with Error('命令执行超时').
PanelTimeoutFire ==
    \E k \in 1..Len(calls) :
        /\ calls[k].via = "panel"
        /\ calls[k].timer = 0
        /\ calls' = [calls EXCEPT ![k] =
              IF timeoutDue(panelPending, k) THEN Settle(Due(@), "timeout") ELSE Due(@)]
        /\ panelPending' = panelPending \ {k}
        /\ UNCHANGED <<wsmPending, mcpCallbacks, thrown, lastStray>>
        /\ UNCHANGED <<viewerVars, connVars>>

\* Messages with protocol 'mcp' as handleMCPResponse reads them (response.id,
\* response.success).
PanelMessages ==
    {[garbage |-> FALSE, id |-> id, success |-> ok] : id \in 0..MaxCalls, ok \in BOOLEAN}
    \cup {[garbage |-> TRUE, id |-> 0, success |-> FALSE]}

\* handleMessage(event) for an MCP message: JSON.parse and handleMCPResponse
\* inside try: a pending entry is removed, its timeout cleared and its
\* promise resolved or rejected; any other response goes to the 'mcp'
\* listeners.
panelResolves(response) ==
    /\ ~response.garbage
    /\ response.id # 0
    /\ response.id \in panelPending
PanelHandleMessage(response) ==
    LET id == response.id
        seen == IF response.garbage THEN calls ELSE Answered(calls, id, "panel")
    IN /\ calls' = IF panelResolves(response)
                   THEN [seen EXCEPT ![id] = [Settle(@, IF response.success THEN "response" ELSE "error") EXCEPT !.timer = Null]]
                   ELSE seen
       /\ panelPending' = IF panelResolves(response) THEN panelPending \ {id} ELSE panelPending
       /\ thrown' = (thrown \/ Escapes(response.garbage, TRUE))
       /\ lastStray' = IF response.garbage \/ id = 0 THEN lastStray ELSE StrayAfter(calls, id, "panel")
       /\ UNCHANGED <<wsmPending, mcpCallbacks>>
       /\ UNCHANGED <<viewerVars, connVars>>
PanelMessage == \E response \in PanelMessages : PanelHandleMessage(response)

\* ---------------------------------------------------------- specifications
Init ==
    /\ locked = FALSE
    /\ lockAge = Null
    /\ lockTimeoutId = 0
    /\ watchdogs = [h \in Handles |-> Null]
    /\ cleanupTimer = Ticks(CleanupInterval)
    /\ executedCommands = [id \in {} |-> 0]
    /\ pendingRecords = [id \in {} |-> 0]
    /\ commandQueue = <<>>
    /\ isExecutingCommands = FALSE
    /\ drainTimers = NoTimers(DrainDelay)
    /\ retryTimers = NoTimers(LockRetryDelay)
    /\ direct = {}
    /\ lastAcquire = "none"
    /\ lastWarning = "none"
    /\ lastJudged = NotJudged
    /\ shellRetries = {}
    /\ calls = <<>>
    /\ wsmPending = {}
    /\ mcpCallbacks = {}
    /\ panelPending = {}
    /\ thrown = FALSE
    /\ lastStray = "none"
    /\ sockets = [s \in SocketIds |-> "NONE"]
    /\ ws = 0
    /\ status = "disconnected"
    /\ reconnectAttempts = 0
    /\ reconnectTimer = Null
    /\ pingTimer = Null
    /\ closeRetries = NoTimers(CloseRetryDelay)
    /\ lastActivity = 0
    /\ lastInbound = 0
    /\ intentional = FALSE
    /\ wsmSockets = [s \in SocketIds |-> "NONE"]
    /\ wsmConnection = 0
    /\ wsmReconnectAttempts = 0
    /\ wsmReconnects = NoTimers(WsmReconnectDelay)
    /\ wsmTimeouts = [s \in SocketIds |-> Null]
    /\ wsmRetrying = {}
    /\ wsmLastSend = "none"
    /\ lastSend = "none"
    /\ svcSockets = [s \in SocketIds |-> "NONE"]
    /\ wsConnection = 0
    /\ connectionStatus = "disconnected"
    /\ connectionError = "null"
    /\ svcReconnectAttempts = 0
    /\ svcReconnectTimer = Null
    /\ svcLastSend = "none"

\* CommandStateManager under arbitrary callers.
NextLock ==
    \/ AcquireCall
    \/ ReleaseCall
    \/ RegisterCall
    \/ MarkCall
    \/ WatchdogFire
    \/ CleanupSweep
    \/ Tick
SpecLock == Init /\ [][NextLock]_vars

\* Time passes, and the browser runs a timer that is due: the watchdog
\* (setTimeout) and the sweep (setInterval).  The callers are not obliged to
\* call anything.
FairSpecLock ==
    /\ SpecLock
    /\ WF_vars(Tick)
    /\ WF_vars(WatchdogFire)
    /\ WF_vars(CleanupSweep)

\* The executed-command records of CommandStateManager and its judgement
\* of duplicates, under arbitrary callers.
NextJudge ==
    \/ RegisterJudged
    \/ MarkCall
    \/ MarkStaleCall
    \/ IsExecutedCall
    \/ ShellAction
    \/ CleanupSweep
    \/ Tick
SpecJudge == Init /\ [][NextJudge]_vars

\* The retention of the records: callers ask, register and mark at any
\* time; time passes and the browser runs the sweep (setInterval, never
\* cleared) when it is due.
NextRetention ==
    \/ IsRegisteredExecuted
    \/ RegisterCall
    \/ MarkCall
    \/ CleanupSweep
    \/ Tick
FairSpecRetention ==
    /\ Init
    /\ [][NextRetention]_vars
    /\ WF_vars(Tick)
    /\ WF_vars(CleanupSweep)

\* The viewer: its CommandStateManager, its command queue and drain, and the
\* commands the MCP server pushes.  The viewer's lock is taken by the drain
\* only, and only while isExecutingCommands is false, so the drain's 500 ms
\* lock retry is never armed here (RetryNeverArmed) and has no action.
NextViewer ==
    \/ WebSocketCommand
    \/ McpCommandMessage
    \/ DirectFinish
    \/ DrainContinue
    \/ ExposedExecute
    \/ WatchdogFire
    \/ CleanupSweep
    \/ Tick
SpecViewer == Init /\ [][NextViewer]_vars


\* The correlation tables of WebSocketManager, MCPClient and the control
\* panel: commands are sent at any time, the server answers what and when it
\* likes (late, twice, for ids it was never sent, or never).
NextCorr ==
    \/ SendCommand
    \/ CommandTimeoutFire
    \/ WsmMessage
    \/ ExecuteCommand
    \/ McpResponseMessage
    \/ SendMCPCommand
    \/ PanelTimeoutFire
    \/ PanelMessage
    \/ Tick
SpecCorr == Init /\ [][NextCorr]_vars

\* The command endpoint with the viewer listening on it: the viewer's direct
\* calls send commands through the manager, the server answers them, and the
\* drain runs whatever the viewer's handler has queued (runs in which the
\* drain's pause ends before the lock's watchdog and the sweep matter).
NextEndpoint ==
    \/ SendCommand
    \/ CommandTimeoutFire
    \/ CommandEndpointMessage
    \/ DrainContinue
    \/ Tick
SpecEndpoint == Init /\ [][NextEndpoint]_vars

\* The same tables when ids may repeat.
NextCollide ==
    \/ SendCommand
    \/ SendCommandSameId
    \/ CommandTimeoutFire
    \/ WsmMessage
    \/ ExecuteCommand
    \/ ExecuteCommandSameId
    \/ McpResponseMessage
    \/ Tick
SpecCollide == Init /\ [][NextCollide]_vars

\* The connection of the MCP client: the application connects, disconnects
\* and reconnects at any time; sockets open, deliver messages and close as
\* the network and the server decide.
NextConn ==
    \/ Connect
    \/ Disconnect
    \/ Reconnect
    \/ SocketOpen
    \/ SocketMessage
    \/ SocketClose
    \/ ReconnectFire
    \/ CloseRetryFire
    \/ PingFire
    \/ Tick
SpecConn == Init /\ [][NextConn]_vars

\* The connection WebSocketManager keeps for an endpoint: the application
\* connects, disconnects and sends at any time; sockets open and close as
\* the network and the server decide.
NextWsm ==
    \/ WsmConnect
    \/ WsmDisconnect
    \/ WsmSend
    \/ WsmSocketOpen
    \/ WsmSocketClose
    \/ WsmTimeoutFire
    \/ WsmReconnectFire
    \/ Tick
SpecWsm == Init /\ [][NextWsm]_vars

\* The MCP client's connection under an application that connects and
\* sends messages at any time.
NextSend ==
    \/ Connect
    \/ SendMessage
    \/ SocketOpen
    \/ SocketMessage
    \/ SocketClose
    \/ ReconnectFire
    \/ CloseRetryFire
    \/ PingFire
    \/ Tick
SpecSend == Init /\ [][NextSend]_vars

\* The connection of ModelControlService: the application initialises,
\* sends and closes at any time; sockets open, deliver pings and close as
\* the network and the server decide.
NextService ==
    \/ SvcInit
    \/ SvcSend
    \/ SvcCloseConnection
    \/ SvcSocketOpen
    \/ SvcSocketPing
    \/ SvcSocketClose
    \/ SvcReconnectFire
    \/ Tick
SpecService == Init /\ [][NextService]_vars

\* The app shell's executeWithRetry on a manager whose lock other callers
\* take and release at any time.
NextRetry ==
    \/ AcquireCall
    \/ ReleaseCall
    \/ ShellTurn
    \/ ShellRetryFire
    \/ WatchdogFire
    \/ CleanupSweep
    \/ Tick
SpecRetry == Init /\ [][NextRetry]_vars

\* CommandStateManager under arbitrary callers that also reset it.
NextReset ==
    \/ AcquireCall
    \/ ReleaseCall
    \/ RegisterCall
    \/ MarkCall
    \/ ResetCall
    \/ WatchdogFire
    \/ CleanupSweep
    \/ Tick
SpecReset == Init /\ [][NextReset]_vars

\* ------------------------------------------------------------------ claims
\* C1: a hold that nobody releases does not last forever (it ends by a
\* release or by a force-release that starts a new hold), and an acquireLock()
\* call made when the lock is free or its hold has outlived maxLockTime
\* returns true and takes the lock.
C1_ForceRelease ==
    /\ (locked /\ lockAge >= 1) ~> (~locked \/ lockAge = 0)
    /\ [][AcquireCall /\ (~locked \/ LockExpired(State))
            => lastAcquire' = "true" /\ locked' /\ lockAge' = 0]_vars

\* C1 witness: the watchdog has force-released a hold and a later
\* acquireLock() has taken the lock.
C1_Witness == lastWarning = "watchdog" /\ lastAcquire = "true" /\ locked /\ lockAge = 0

\* The drain never finds the viewer's lock held by somebody else.
RetryNeverArmed == ~Armed(retryTimers)

\* C2: at most one command is executing against the view at any moment:
\* no two rotateModel / zoomModel / focusOnModel / resetModel calls are in
\* flight at once, whether the drain or a pushed command started them.
C2_OneCommandInFlight == Cardinality(direct) <= 1

\* C3: no state has a non-empty queue with no drain step ever running
\* again: whenever commands are queued, a continuation of the drain (the
\* end of its pause, or its lock retry) is pending.
C3_QueueKeepsDraining ==
    Len(commandQueue) > 0 => Armed(drainTimers) \/ Armed(retryTimers)

\* C4: when the running command has finished (the drain's pause is over),
\* the oldest command accepted while the lock was held is taken from the
\* head of the queue and executed next, the others keeping their order.
C4_HeldCommandsRunInOrder ==
    [][DrainContinue /\ Len(commandQueue) > 0 /\ Head(commandQueue).held
            => commandQueue' = Tail(commandQueue)]_vars

\* C5: a command whose deadline passes with no response gets exactly one
\* result, the Timeout, and keeps it whatever arrives later; no error leaves
\* a message callback.
C5_TimeoutOnce ==
    /\ ~thrown
    /\ \A k \in 1..Len(calls) :
          calls[k].via \in {"wsm", "panel"} /\ calls[k].expired
              => calls[k].outcome = "timeout" /\ calls[k].results = 1

\* C5 witness: a command of each table has timed out and its response has
\* arrived afterwards.
C5_Witness ==
    \A via \in {"wsm", "panel"} :
        \E k \in 1..Len(calls) :
            /\ calls[k].via = via
            /\ calls[k].expired /\ calls[k].late
            /\ calls[k].outcome = "timeout" /\ calls[k].results = 1

\* C6: every command whose completion handle has not been invoked yet has
\* a deadline: a timeout is armed for it.
C6_EveryPendingHasDeadline ==
    \A k \in 1..Len(calls) : calls[k].results = 0 => calls[k].timer # Null

\* A response naming `id` is handled in this step.
WsmResponseFor(id) ==
    \E data \in WsmMessages :
        /\ ~data.garbage /\ data.type # "heartbeat_response" /\ wsmCommandId(data) = id
        /\ WsmHandleMessage(data)
McpResponseFor(id) ==
    \E message \in McpMessages :
        /\ ~message.garbage /\ message.commandId = id
        /\ McpHandleResponse(message)
Delivered(cs) == [k \in 1..Len(cs) |-> <<cs[k].outcome, cs[k].results>>]

\* C7: a response for an id that is not awaited (already resolved, expired
\* or never registered) fires no completion handle, leaves the pending
\* tables unchanged and raises no error out of the message callback.
C7_StrayResponseNoOp ==
    [][\A id \in CorrIds :
          \/ WsmResponseFor(id) /\ Stray(calls, id, "wsm") # "none"
          \/ McpResponseFor(id) /\ Stray(calls, id, "mcp") # "none"
          => /\ Delivered(calls') = Delivered(calls)
             /\ UNCHANGED <<wsmPending, mcpCallbacks>>
             /\ ~thrown']_vars

\* C7 as amended: such a response fires no completion handle and raises no
\* error; a table that holds no entry for the id is unchanged, and the entry
\* WebSocketManager keeps after a timeout or a failed send is removed by it.
C7_StrayResponseHarmless ==
    [][\A id \in CorrIds :
          /\ WsmResponseFor(id) /\ Stray(calls, id, "wsm") # "none"
                => /\ Delivered(calls') = Delivered(calls)
                   /\ wsmPending' = wsmPending \ {id}
                   /\ mcpCallbacks' = mcpCallbacks
                   /\ ~thrown'
          /\ McpResponseFor(id) /\ Stray(calls, id, "mcp") # "none"
                => /\ Delivered(calls') = Delivered(calls)
                   /\ UNCHANGED <<wsmPending, mcpCallbacks>>
                   /\ ~thrown']_vars

\* C7 witness: responses have arrived for an expired WebSocketManager
\* command (its kept entry is gone) and, twice, for an MCPClient command.
C7_Witness ==
    /\ \E k \in 1..Len(calls) : calls[k].via = "wsm" /\ calls[k].late /\ k \notin wsmPending
    /\ \E k \in 1..Len(calls) : calls[k].via = "mcp" /\ calls[k].results = 1 /\ lastStray = "resolved"

\* C8: after disconnect(), until the application calls connect() or
\* reconnect(), the status is 'disconnected', the keepalive is stopped, no
\* reconnect is scheduled and no transport is connecting or open.
C8_StaysDisconnected ==
    intentional =>
        /\ status = "disconnected"
        /\ pingTimer = Null
        /\ reconnectTimer = Null
        /\ Active(Conn) = {}

\* C9: at most one transport of the connection is connecting or open at any
\* time.
C9_OneActiveTransport == Cardinality(Active(Conn)) <= 1

\* C10: when the ping timer runs while the client is connected and no
\* message has come in for more than twice the ping interval, it reconnects
\* (the transport is replaced).
C10_SilentPeerDetected ==
    [][PingFire /\ ws # 0 /\ sockets[ws] = "OPEN" /\ status = "connected"
            /\ Elapsed(lastInbound) > PingInterval * 2
          => ws' # ws]_vars

\* C11: an acquireLock() call made while the lock is held and its hold has
\* not outlived maxLockTime returns false and leaves the flag, the timestamp
\* and the watchdog as they are.
C11_RefusedAcquireChangesNothing ==
    [][AcquireCall /\ locked /\ ~LockExpired(State)
            => /\ lastAcquire' = "false"
               /\ UNCHANGED <<locked, lockAge, lockTimeoutId, watchdogs>>]_vars

\* C11 witness: acquireLock() has been refused during a hold that has
\* lasted for a while and still has its watchdog.
C11_Witness ==
    /\ lastAcquire = "false"
    /\ locked
    /\ lockAge >= 1
    /\ lockTimeoutId # 0
    /\ watchdogs[lockTimeoutId] # Null

\* The timers a bag holds.
RECURSIVE SumUpTo(_, _)
SumUpTo(bag, t) == IF t < 0 THEN 0 ELSE bag[t] + SumUpTo(bag, t - 1)
Pending(bag) == SumUpTo(bag, Cardinality(DOMAIN bag) - 1)

\* C12: at most one drain step (a dequeued command and the pause after it)
\* is in progress at any time, and an enqueue or a call of the exposed
\* executeQueuedCommands made while a step is in progress dequeues nothing:
\* no command is started, no pause or retry is armed, the lock and the
\* draining flag stay as they are; the exposed call changes nothing at all.
C12_OneDrainAtATime ==
    /\ [](Pending(drainTimers) <= 1)
    /\ [][(WebSocketCommand \/ ExposedExecute) /\ isExecutingCommands
            => UNCHANGED <<drainTimers, retryTimers, executedCommands, direct, isExecutingCommands,
                           locked, lockAge, lockTimeoutId, watchdogs>>]_vars
    /\ [][ExposedExecute /\ isExecutingCommands => UNCHANGED viewerVars]_vars

\* C12 witness: a drain step is in progress and a command that arrived
\* during it waits in the queue.
C12_Witness ==
    /\ isExecutingCommands
    /\ Pending(drainTimers) = 1
    /\ Len(commandQueue) > 0
    /\ locked

\* C13: of two similar commands submitted by two sources, at most one is
\* executed: no two calls of the same kind with similar parameters, one
\* started by the drain and one by a pushed command, are in flight at once.
C13_DuplicateAbsorbed ==
    \A a \in direct, b \in direct :
        a.origin # b.origin /\ a.kind = b.kind => ~areParamsSimilar(a.params, b.params, a.kind)

\* The positions of the queue that hold a command of one kind.
Queued(q, operation) == {i \in 1..Len(q) : q[i].operation = operation}

\* C14: a focus (or reset) message that arrives while a focus (or reset)
\* entry waits in the queue leaves exactly one entry of that kind in the
\* queue, with the parameters of the message.
C14_LatestFocusWins ==
    [][\A m \in QueueMessages :
          CommandMessage(m) /\ m.operation \in {"focus", "reset"} /\ Queued(commandQueue, m.operation) # {}
          => /\ Cardinality(Queued(commandQueue', m.operation)) = 1
             /\ \A i \in Queued(commandQueue', m.operation) : commandQueue'[i].params = m.params]_vars

\* C14 witness: focus A was queued (its generated id is still registered)
\* and is gone from the queue, which holds focus B instead.
C14_Witness ==
    /\ \E i \in Queued(commandQueue, "focus") : commandQueue[i].params = Focus("B")
    /\ Cardinality(Queued(commandQueue, "focus")) = 1
    /\ \E id \in DOMAIN pendingRecords :
          /\ id.op = "focus"
          /\ id.shape = "gen"
          /\ pendingRecords[id].params = EmptyParams
          /\ \A j \in 1..Len(commandQueue) : commandQueue[j].id # id

\* C15: in every reachable state the queue holds at most one focus entry
\* and at most one reset entry.
C15_OnePriorityEntryPerKind ==
    /\ Cardinality(Queued(commandQueue, "focus")) <= 1
    /\ Cardinality(Queued(commandQueue, "reset")) <= 1

\* C15 witness: a focus and a reset wait in the queue together.
C15_Witness ==
    /\ Cardinality(Queued(commandQueue, "focus")) = 1
    /\ Cardinality(Queued(commandQueue, "reset")) = 1

\* C16: when a focus or reset message replaces the queued entry of its
\* kind, the new entry stands where the old one stood and the other entries
\* keep their places.
C16_ReplacedInPlace ==
    [][\A m \in QueueMessages :
          CommandMessage(m) /\ m.operation \in {"focus", "reset"} /\ Queued(commandQueue, m.operation) # {}
          => /\ Queued(commandQueue', m.operation) = Queued(commandQueue, m.operation)
             /\ \A i \in 1..Len(commandQueue) :
                   commandQueue[i].operation # m.operation
                       => i <= Len(commandQueue') /\ commandQueue'[i] = commandQueue[i]]_vars

\* No two entries of the queue are of the same kind with parameters that
\* areParamsSimilar judges similar for that kind.
NoSimilarQueued ==
    \A i \in 1..Len(commandQueue), j \in 1..Len(commandQueue) :
        i < j /\ commandQueue[i].operation = commandQueue[j].operation
            => ~areParamsSimilar(commandQueue[i].params, commandQueue[j].params, commandQueue[i].operation)

\* The entries of the queue as the viewer stores them: id, operation, params.
Entries(q) == [i \in 1..Len(q) |-> [id |-> q[i].id, operation |-> q[i].operation, params |-> q[i].params]]

Unsettled(cs, id, via) == {k \in Carriers(cs, id, via) : cs[k].results = 0}

\* C18: a command sent with an id that is pending is refused with an error,
\* and no id has more than one command waiting under it.
C18_DuplicateIdRejected ==
    /\ \A k \in 1..Len(calls) : calls[k].alias # 0 => calls[k].outcome = "error"
    /\ \A id \in CorrIds, via \in {"wsm", "mcp"} : Cardinality(Unsettled(calls, id, via)) <= 1

\* The commands of a table that are still awaited: stored and with no result.
Awaited(cs, via) ==
    {k \in 1..Len(cs) : /\ cs[k].via = via
                        /\ cs[k].results = 0
                        /\ k \in (IF via = "wsm" THEN wsmPending ELSE mcpCallbacks)}

\* C19: a response resolves the awaited command whose id it carries and no
\* other command; the other awaited commands stay awaited, whatever the
\* order in which the commands were sent.
C19_MatchedById ==
    [][\A id \in CorrIds, via \in {"wsm", "mcp"} :
          (IF via = "wsm" THEN WsmResponseFor(id) ELSE McpResponseFor(id))
          => /\ \A k \in 1..Len(calls) : k # id => calls'[k] = calls[k]
             /\ id \in Awaited(calls, via) => calls'[id].results = 1 /\ calls'[id].outcome = "response"
             /\ Awaited(calls', "wsm") = Awaited(calls, "wsm") \ (IF via = "wsm" THEN {id} ELSE {})
             /\ Awaited(calls', "mcp") = Awaited(calls, "mcp") \ (IF via = "mcp" THEN {id} ELSE {})]_vars

\* C19 witness: of three commands awaited on one table the last one sent
\* was answered first, the middle one next, and the first one is still awaited.
C19_Witness ==
    \E via \in {"wsm", "mcp"} :
        /\ Len(calls) = 3
        /\ \A k \in 1..3 : calls[k].via = via /\ ~calls[k].expired
        /\ Awaited(calls, via) = {1}
        /\ calls[3].outcome = "response" /\ calls[3].results = 1
        /\ calls[2].outcome = "response" /\ calls[2].results = 1

\* A response of WebSocketManager / of the MCP client is handled whose id,
\* the first one found at the known places in their order, is `id`.
WsmResponseCarrying(id) ==
    \E data \in WsmMessages :
        /\ ~data.garbage /\ data.type # "heartbeat_response" /\ wsmCommandId(data) = id
        /\ WsmHandleMessage(data)
McpResponseCarrying(id) ==
    \E message \in McpMessages :
        /\ ~message.garbage /\ wsmCommandId(message) = id
        /\ McpHandleResponse(message)

\* C20: a response resolves the awaited command whose id it carries, at
\* whichever of the known places the id is: at the top level, under
\* `command` or under `result`.
C20_ResolvedFromAnyPlace ==
    [][\A id \in CorrIds :
          /\ WsmResponseCarrying(id) /\ id \in Awaited(calls, "wsm")
                => calls'[id].results = 1 /\ calls'[id].outcome = "response"
          /\ McpResponseCarrying(id) /\ id \in Awaited(calls, "mcp")
                => calls'[id].results = 1 /\ calls'[id].outcome = "response"]_vars

\* WebSocketManager alone resolves the awaited command from every place.
WsmResolvedFromAnyPlace ==
    [][\A id \in CorrIds :
          WsmResponseCarrying(id) /\ id \in Awaited(calls, "wsm")
                => calls'[id].results = 1 /\ calls'[id].outcome = "response"]_vars

\* The executed-command records of a kind that are inside the retention window.
InWindow(operation) ==
    {id \in DOMAIN executedCommands :
        /\ executedCommands[id].operation = operation
        /\ Elapsed(executedCommands[id].age) < RecordTTL}
\* The parameters a record was stored with (none: the record has no params).
Stored(id) == executedCommands[id].params
HasStored(id, keys) == executedCommands[id].hasParams /\ keys \subseteq DOMAIN Stored(id)

\* C21: isCommandExecuted('rotate', {axis, angle}) returns true exactly when
\* a rotate record of the retention window has the same axis and an angle
\* less than 15 degrees away.
C21_RotateWithin15Degrees ==
    lastJudged.asked /\ lastJudged.operation = "rotate" /\ {"axis", "angle"} \subseteq DOMAIN lastJudged.params
        => lastJudged.result =
              \E id \in InWindow("rotate") :
                  /\ HasStored(id, {"axis", "angle"})
                  /\ Stored(id).axis = lastJudged.params.axis
                  /\ Abs(Stored(id).angle - lastJudged.params.angle) < 15

\* C22: rotate(left, 50) submitted through the app shell while the record of
\* a completed rotate(left, 45) is less than one tick old is skipped: no
\* command is registered and none is marked executed.
C22_SecondRotateSuppressed ==
    [][/\ ExecuteAction([type |-> "rotate", params |-> Turn("left", 50)])
       /\ \E id \in InWindow("rotate") :
             /\ executedCommands[id].age = 0
             /\ HasStored(id, {"direction", "angle"})
             /\ Stored(id) = Turn("left", 45)
       => UNCHANGED <<executedCommands, pendingRecords>>]_vars

\* C23: isCommandExecuted('zoom', p) returns true exactly when a zoom record
\* of the retention window has the same direction as p and a distance less
\* than 0.3 away, or has a scale less than 0.3 away from the scale of p
\* (p given as direction and distance or as a scale).
C23_ZoomRule ==
    lastJudged.asked /\ lastJudged.operation = "zoom" /\ "value" \notin DOMAIN lastJudged.params
        => lastJudged.result =
              \E id \in InWindow("zoom") :
                  \/ /\ HasStored(id, {"direction", "distance"})
                     /\ {"direction", "distance"} \subseteq DOMAIN lastJudged.params
                     /\ Stored(id).direction = lastJudged.params.direction
                     /\ Abs(Stored(id).distance - lastJudged.params.distance) < 3
                  \/ /\ HasStored(id, {"scale"})
                     /\ "scale" \in DOMAIN lastJudged.params
                     /\ Abs(Stored(id).scale - lastJudged.params.scale) < 3

Expired == {id \in DOMAIN executedCommands : Elapsed(executedCommands[id].age) > RecordTTL}
RecordIds == {[op |-> op, shape |-> "gen", n |-> n] : op \in {"rotate", "reset"}, n \in 1..MaxIds}

\* C25: isCommandExecuted returns true only when a record of the kind is
\* inside the retention window, and every record older than recordTTL is
\* eventually gone from executedCommands (or replaced by a new record of
\* the same id).
C25_ExpiredRecordsIgnoredAndPurged ==
    /\ [](lastJudged.asked /\ lastJudged.result => InWindow(lastJudged.operation) # {})
    /\ \A id \in RecordIds : (id \in Expired) ~> (id \notin Expired)

\* C25 witness: a reset is judged not executed while the only reset record
\* there is has expired and has not been swept yet.
C25_Witness ==
    /\ lastJudged.asked /\ lastJudged.operation = "reset" /\ ~lastJudged.result
    /\ \E id \in Expired : executedCommands[id].operation = "reset"

\* C26: a call of isCommandExecuted leaves the executed-command records,
\* the pending records, the lock and the watchdog as they were; a record
\* appears in executedCommands only in a step that calls markAsExecuted.
C26_JudgeIsReadOnly ==
    /\ [][IsExecutedCall
            => UNCHANGED <<executedCommands, pendingRecords, locked, lockAge, lockTimeoutId, watchdogs>>]_vars
    /\ [][DOMAIN executedCommands' \ DOMAIN executedCommands # {}
            => MarkCall \/ MarkStaleCall \/ ShellAction]_vars

\* C26 witness: isCommandExecuted has just returned false for a rotate that
\* is still pending while another command is in the executed records.
C26_Witness ==
    /\ lastJudged.asked /\ lastJudged.operation = "rotate" /\ ~lastJudged.result
    /\ \E id \in DOMAIN pendingRecords :
          pendingRecords[id].operation = "rotate" /\ pendingRecords[id].params = lastJudged.params
    /\ DOMAIN executedCommands # {}

\* ------------------------------------------------------------------- C27
\* The endpoint has a transport that is open or still connecting.
WsmTransportActive ==
    wsmConnection # 0 /\ wsmSockets[wsmConnection] \in {"CONNECTING", "OPEN"}

\* C27: connect() called while a transport is already open or still
\* connecting returns at once: no transport is created, the existing one is
\* not closed and stays the connection's transport.
C27_ConnectIdempotent ==
    [][WsmConnect /\ WsmTransportActive => UNCHANGED <<wsmSockets, wsmConnection>>]_vars

\* ------------------------------------------------------------------- C28
\* C28: a send succeeds (the payload is handed to the transport) exactly
\* when the connection status is 'connected'; in every other status,
\* 'connecting', 'reconnecting' and 'error' included, it fails and hands
\* nothing to the transport.
C28_SendNeedsConnectedStatus ==
    lastSend # "none" => (lastSend = "true" <=> status = "connected")

\* ------------------------------------------------------------------- C29
\* min(base_delay * 2^n, max_delay)
Backoff(base, n, cap) == Min(base * 2^n, cap)

\* C29: the reconnect scheduled after n reconnects without a successful
\* connection in between is due in min(base_delay * 2^n, max_delay), and
\* the attempt counter is 0 again as soon as a connection is established.
C29_ExponentialBackoff ==
    [][/\ reconnectAttempts' = reconnectAttempts + 1 =>
              reconnectTimer' = Ticks(Backoff(ReconnectDelay, reconnectAttempts, SvcMaxDelay))
       /\ SocketOpen => reconnectAttempts' = 0]_vars

\* ------------------------------------------------------------------- C30
\* The transports of the service that are connecting or open.
SvcActive == {s \in SocketIds : svcSockets[s] \in {"CONNECTING", "OPEN"}}

\* The reconnect attempts are used up and none is under way.
SvcExhausted ==
    /\ svcReconnectAttempts >= SvcMaxReconnectAttempts
    /\ svcReconnectTimer = Null
    /\ SvcActive = {}

\* C30: when a connection attempt fails after maxReconnectAttempts reconnect
\* attempts without a successful connection in between, no further
\* reconnect is scheduled and the status is the terminal 'error'; from then
\* on a transport is created only by an explicit call to connect again.
C30_ExhaustedIsTerminalError ==
    [][/\ \A s \in SocketIds :
              /\ SvcClose(s, TRUE)
              /\ svcSockets[s] = "CONNECTING"
              /\ svcReconnectAttempts >= SvcMaxReconnectAttempts
              => svcReconnectTimer' = Null /\ connectionStatus' = "error"
       /\ SvcExhausted /\ SvcActive' # {} => SvcInit]_vars

\* ------------------------------------------------------------------- C31
\* The statuses of the sequence
\* disconnected -> connecting -> connected -> (reconnecting -> connected)* -> disconnected
\* and its transitions.
OrderedStatuses == {"disconnected", "connecting", "connected", "reconnecting"}
StatusOrder ==
    {<<"disconnected", "connecting">>, <<"connecting", "connected">>,
     <<"connected", "reconnecting">>, <<"reconnecting", "connected">>,
     <<"connected", "disconnected">>}

\* C31: the statuses delivered to the status subscriber follow the sequence
\* disconnected -> connecting -> connected -> (reconnecting -> connected)*
\* -> disconnected.  setStatus delivers the status it sets, so the status
\* after a step is the last one delivered: it is always a status of the
\* sequence, and the one status the reconnect timer's connect() delivers
\* follows the previous one in the sequence.
C31_StatusesInOrder ==
    [][/\ status' \in OrderedStatuses
       /\ ReconnectFire /\ status' # status => <<status, status'>> \in StatusOrder]_vars

\* ------------------------------------------------------------------- C32
\* A call of executeWithRetry that comes to its acquireLock().
ShellAttempt ==
    \/ /\ ShellTurn
       /\ ~isCommandExecuted(State, "rotate", Turn("left", 45))
    \/ \E r \in shellRetries :
           /\ RetryFire(r)
           /\ r.retryCount <= r.maxRetries
\* C32: executeWithRetry makes at most maxRetries + 1 attempts to acquire
\* the lock (a retry timer carries the number of attempts made, and the
\* one that carries maxRetries + 1 gives up: it acquires nothing and arms
\* nothing); the delay of each retry timer is longer than the delay waited
\* before; and a call that acquired the lock has released it when it
\* returns.
C32_BoundedRetries ==
    [][/\ \A r \in shellRetries' : r.retryCount <= r.maxRetries + 1 /\ r.delay > r.waited
       /\ \A r \in shellRetries :
              RetryFire(r) /\ r.retryCount > r.maxRetries
              => shellRetries' = shellRetries \ {r} /\ UNCHANGED <<locked, lockAge, lastAcquire>>
       /\ ShellAttempt /\ ~acquireLockRefused(State) => ~locked']_vars

\* One call has acquired the lock, executed its command and released the
\* lock, and another has been refused three times: its last timer, whose
\* call will give up, is pending.
C32_Witness ==
    /\ ~locked
    /\ DOMAIN executedCommands # {}
    /\ \E r \in shellRetries :
           r.retryCount = ShellMaxRetries + 1 /\ r.waited = ShellRetryBase * ShellMaxRetries

\* ------------------------------------------------------------------- C33
\* C33: when the drain has executed a queued command of kind k with
\* parameters p (here: the command of a message that found the queue empty
\* and the drain idle, so that the drain ran it at once), the dedup history
\* holds a record of kind k that isCommandExecuted judges similar to p.
C33_DrainRecordsKindAndParams ==
    [][\A m \in QueueMessages :
          /\ CommandMessage(m)
          /\ Len(commandQueue) = 0
          /\ ~isExecutingCommands
          /\ drainTimers' # drainTimers
          => isCommandExecuted([executedCommands |-> executedCommands'], m.operation, m.params)]_vars

\* ------------------------------------------------------------------- C34
\* The watchdog timers that are armed.
ArmedWatchdogs == {h \in Handles : watchdogs[h] # Null}

\* C34: locked is true exactly when lockTimestamp is set and exactly when a
\* watchdog is armed; at most one watchdog is armed; the armed watchdog is
\* the one of the current hold (it is the remembered one and is due
\* maxLockTime after the hold began), so none of an earlier hold fires
\* during a later one; and releaseLock() on a lock that is not held changes
\* nothing.
C34_LockFieldsAgree ==
    /\ locked <=> lockAge # Null
    /\ locked <=> ArmedWatchdogs # {}
    /\ Cardinality(ArmedWatchdogs) <= 1
    /\ locked => /\ ArmedWatchdogs = {lockTimeoutId}
                 /\ watchdogs[lockTimeoutId] = Max(Ticks(MaxLockTime) - lockAge, 0)
    /\ ~locked => lockTimeoutId = 0 /\ releaseLock(State) = State

\* A hold that began after an expired hold was released by the sweep, one
\* tick old, with its own watchdog armed.
C34_Witness ==
    /\ lastWarning = "expired-on-sweep"
    /\ locked
    /\ lockAge = 1
    /\ ArmedWatchdogs = {lockTimeoutId}

\* A step in which acquireLock() starts a new hold: the lock was free, or
\* its hold had expired and is replaced.
HoldTaken == locked' /\ lockAge' = 0 /\ (~locked \/ LockExpired(State))

\* C35: a releaseLock() of a holder whose hold was force-released never
\* frees the hold of a later caller.  The viewer's lock is taken only by
\* executeQueuedCommands, behind its isExecutingCommands guard: every hold
\* belongs to the drain whose flag is set; a new hold is taken only when no
\* earlier drain is left that could still call releaseLock() (flag clear, no
\* pause pending); and a held lock is freed only by the drain's own final
\* step or by the expiry of that hold (watchdog, sweep).
C35_StaleReleaseFreesNoLaterHold ==
    [][/\ locked' => isExecutingCommands'
       /\ HoldTaken => ~isExecutingCommands /\ ~Armed(drainTimers)
       /\ locked /\ ~locked' => DrainContinue \/ WatchdogFire \/ CleanupSweep]_vars

\* C35 witness: a hold was force-released while its drain was running, that
\* drain has since issued its releaseLock(), and a later drain now holds
\* the lock.
C35_Witness ==
    /\ lastWarning \in {"watchdog", "expired-on-sweep"}
    /\ locked /\ lockAge = 0 /\ isExecutingCommands /\ Armed(drainTimers)

\* ------------------------------------------------------------------- C36
\* C36: whenever the client's status is 'connected', this.ws refers to an
\* open transport (so that sendMessage succeeds), after any interleaving of
\* connect(), disconnect(), reconnect() and the open, close and message
\* events of old and new sockets.
C36_ConnectedHasOpenTransport ==
    status = "connected" => ws # 0 /\ sockets[ws] = "OPEN"

\* ------------------------------------------------------------------- C37
\* C37: markAsExecuted(id) for an id that registerCommand(kind, params)
\* returned leaves an executed record under that id with that kind and those
\* params, however long the command was in flight and whatever sweeps ran
\* in between.
C37_MarkKeepsKindAndParams ==
    [][\A call \in direct :
          /\ direct' = direct \ {call}
          /\ call.key \in DOMAIN executedCommands'
          /\ call.key \notin DOMAIN executedCommands
          => /\ executedCommands'[call.key].operation = call.kind
             /\ executedCommands'[call.key].hasParams
             /\ executedCommands'[call.key].params = call.params]_vars

\* ------------------------------------------------------------------- C38
\* C38: only commands enter the command queue.  A message on the command
\* endpoint that answers one of this client's pending commands, or that
\* names no operation, is resolved against the pending table and is neither
\* put in commandQueue nor run through the drain.
C38_ResponsesAreNotQueued ==
    [][\A data \in WsmMessages :
          EndpointMessage(data) =>
              UNCHANGED <<commandQueue, isExecutingCommands, drainTimers, executedCommands>>]_vars

\* ------------------------------------------------------------------- C39
\* C39: a command whose send fails because the connection is not open
\* leaves no entry in the correlation table: the stored callbacks of
\* MCPClient after executeCommand on a client whose socket is not open, and
\* the pending commands of the control panel after a sendMCPCommand that
\* was rejected, are those from before the call.
C39_FailedSendLeavesNoEntry ==
    [][/\ ExecuteCommand /\ ~(ws # 0 /\ sockets[ws] = "OPEN") => mcpCallbacks' = mcpCallbacks
       /\ SendMCPCommand /\ calls'[Len(calls')].outcome = "error" => panelPending' = panelPending]_vars

=============================================================================
